---------------------------- MODULE Spec2Model ----------------------------
(***************************************************************************)
(* GauchoGPT: the housing / course ETL pipeline (etl_pipeline.py), the     *)
(* SQLite persistence layer behind it (db_manager.py), and the dashboard's  *)
(* own CSV readers (housing_page.py, gauchoGPT.py), and the scraping       *)
(* scripts (scrapers.py, ucsb_course_scraper.py, scrape_pstat_offerings.py). *)
(*                                                                         *)
(* Conventions                                                             *)
(*   - a text is a sequence of one-character strings, so that lower(),      *)
(*     contains() and the numeric parse are computed, not looked up;        *)
(*   - a nullable cell is a sequence of length <= 1: <<>> is NaN / None /  *)
(*     NULL, <<v>> holds v;                                                 *)
(*   - a float that is the quotient of two integers is the reduced pair    *)
(*     <<num, den>>; a zero denominator is +-inf;                           *)
(*   - a DataFrame is a sequence of rows, a row a record keyed by column.   *)
(***************************************************************************)
EXTENDS Integers, Sequences, FiniteSets, TLC

VARIABLES
    df,         \* the DataFrame handed to transform_housing_data
    out,        \* what the call produced: [fn, raised, rows]; <<>> before the call
    db,         \* the database file: the committed tables and sqlite_sequence
    tx,         \* the open connection's view of the tables; <<>> when none is open
    nopen,      \* connections currently open
    pc,         \* position inside get_connection: idle, connect, body, commit,
                \* except, finally, done
    op,         \* the operation running inside get_connection: [name, arg]
    res,        \* its outcome: [raised, value]
    hist,       \* what the call in progress did: [opened, closed, commits,
                \* rollbacks, body_raised]
    pre,        \* the database file when the call started
    upserts,    \* per (major, course_code): the insert_course calls that returned
                \* and the data of the latest of them
    calls,      \* the get_connection blocks completed so far
    csv,        \* the housing CSV on disk: <<>> when the file is absent
    courses_csv, \* the course CSV on disk: <<>> when the file is absent
    batch,      \* the course DataFrame handed to load_course_data
    etl,        \* the ETLPipeline method in progress: [name, i, phase]
    runs,       \* ETLPipeline calls so far: [returned, raised], and how many
                \* of them were run_course_pipeline: course
    readback,   \* the last get_housing_listings result: <<>> or <<[rows, after]>>
    report,     \* the last validate_housing_data report: <<>> or <<report>>
    conns,      \* processes that share the database file, each with its own
                \* connection: [pc, op, tx, res, order]
    lock,       \* the process whose transaction holds the file's write lock, or 0
    scrape,     \* scrape_all_sources in progress: [web, i, all_listings, result]
    ucsb,       \* the UCSBCourseScraper's database file and its connections
    parse       \* parse_offerings_from_html in progress: [lines, i, offerings, done]

vars == <<df, out, db, tx, nopen, pc, op, res, hist, pre, upserts, calls,
          csv, courses_csv, batch, etl, runs, readback, report,
          conns, lock, scrape, ucsb, parse>>

(* The state of the scripts and processes beside the ETL pipeline *)
extvars == <<conns, lock, scrape, ucsb, parse>>

NoConns == conns = <<>> /\ lock = 0

NoExt == NoConns /\ scrape = <<>> /\ ucsb = <<>> /\ parse = <<>>

dbvars == <<db, tx, nopen, pc, op, res, hist, pre, upserts, calls>>

etlvars == <<csv, courses_csv, batch, etl, runs, readback, report>>

----------------------------------------------------------------------------
(* Nullable cells *)

NaN == <<>>

Some(v) == <<v>>

IsNull(c) == c = <<>>

NotNull(c) == c # <<>>

Val(c) == c[1]

----------------------------------------------------------------------------
(* Text: str.lower, str.contains, str.replace on sequences of characters *)

UPPER == <<"A","B","C","D","E","F","G","H","I","J","K","L","M",
           "N","O","P","Q","R","S","T","U","V","W","X","Y","Z">>

LOWER == <<"a","b","c","d","e","f","g","h","i","j","k","l","m",
           "n","o","p","q","r","s","t","u","v","w","x","y","z">>

LowerChar(c) ==
    IF \E i \in 1..Len(UPPER) : UPPER[i] = c
    THEN LOWER[CHOOSE i \in 1..Len(UPPER) : UPPER[i] = c]
    ELSE c

StrLower(s) == [i \in 1..Len(s) |-> LowerChar(s[i])]

StrContains(s, pat) ==
    \E i \in 0..(Len(s) - Len(pat)) : SubSeq(s, i + 1, i + Len(pat)) = pat

StrRemove(s, ch) == SelectSeq(s, LAMBDA c : c # ch)

DIGITS == <<"0","1","2","3","4","5","6","7","8","9">>

IsDigit(c) == \E i \in 1..Len(DIGITS) : DIGITS[i] = c

DigitVal(c) == (CHOOSE i \in 1..Len(DIGITS) : DIGITS[i] = c) - 1

RECURSIVE DigitsVal(_)
DigitsVal(s) ==
    IF s = <<>> THEN 0
    ELSE 10 * DigitsVal(SubSeq(s, 1, Len(s) - 1)) + DigitVal(s[Len(s)])

AllDigits(s) == s # <<>> /\ \A i \in 1..Len(s) : IsDigit(s[i])

(* A plausible slip: the text is parsed as an integer, so "2450.0" is lost *)
to_numeric_int(c) ==
    IF IsNull(c) THEN NaN
    ELSE LET s == Val(c) IN
         IF AllDigits(s) THEN Some(DigitsVal(s))
         ELSE IF Len(s) > 1 /\ s[1] = "-" /\ AllDigits(Tail(s))
              THEN Some(0 - DigitsVal(Tail(s)))
              ELSE NaN

(* The digits before the decimal point of an unsigned decimal text whose    *)
(* fraction is zero ("2450", "2450.0"); <<>> for any other text              *)
WholePart(s) ==
    IF AllDigits(s) THEN s
    ELSE IF \E k \in 2..(Len(s) - 1) :
                /\ s[k] = "."
                /\ AllDigits(SubSeq(s, 1, k - 1))
                /\ \A j \in (k + 1)..Len(s) : s[j] = "0"
         THEN SubSeq(s, 1, (CHOOSE k \in 2..(Len(s) - 1) : s[k] = ".") - 1)
         ELSE <<>>

(* pd.to_numeric(errors='coerce') on one text cell: an optionally signed   *)
(* decimal parses, anything else (the text "nan" included) is NaN.  Non-zero *)
(* fractions and exponents are outside the model's input alphabet.          *)
to_numeric(c) ==
    IF IsNull(c) THEN NaN
    ELSE LET s == Val(c) IN
         IF WholePart(s) # <<>> THEN Some(DigitsVal(WholePart(s)))
         ELSE IF Len(s) > 1 /\ s[1] = "-" /\ WholePart(Tail(s)) # <<>>
              THEN Some(0 - DigitsVal(WholePart(Tail(s))))
              ELSE NaN

RECURSIVE FormatNat(_)
FormatNat(n) ==
    IF n < 10 THEN <<DIGITS[n + 1]>>
    ELSE Append(FormatNat(n \div 10), DIGITS[(n % 10) + 1])

(* Series.astype(str) on a numeric column: an int64 column prints "2450", a *)
(* float64 column "2450.0", and its missing cells "nan"                      *)
astype_str_num(c, is_float) ==
    IF IsNull(c) THEN <<"n","a","n">>
    ELSE (IF Val(c) < 0 THEN <<"-">> ELSE <<>>)
            \o FormatNat(IF Val(c) < 0 THEN 0 - Val(c) ELSE Val(c))
            \o (IF is_float THEN <<".", "0">> ELSE <<>>)

(* Series.astype(str): a missing cell becomes the text "nan" *)
astype_str(c) == IF IsNull(c) THEN <<"n","a","n">> ELSE Val(c)

(* .str.lower() / .str.contains(pat, na=False) on a nullable text cell *)
str_lower(c) == IF IsNull(c) THEN NaN ELSE Some(StrLower(Val(c)))

str_contains(c, pat) == IF IsNull(c) THEN FALSE ELSE StrContains(Val(c), pat)

UpperChar(c) ==
    IF \E i \in 1..Len(LOWER) : LOWER[i] = c
    THEN UPPER[CHOOSE i \in 1..Len(LOWER) : LOWER[i] = c]
    ELSE c

IsAlpha(c) == \E i \in 1..Len(LOWER) : LOWER[i] = c \/ UPPER[i] = c

StrUpper(s) == [i \in 1..Len(s) |-> UpperChar(s[i])]

(* str.strip(): the text between its first and its last non-blank character *)
StrStrip(s) ==
    LET ns == {i \in 1..Len(s) : s[i] # " "} IN
    IF ns = {} THEN <<>>
    ELSE SubSeq(s, CHOOSE i \in ns : \A j \in ns : i <= j,
                   CHOOSE i \in ns : \A j \in ns : j <= i)

(* str.title(): a letter that starts a run of letters is upper case, every *)
(* other letter lower case                                                  *)
StrTitle(s) ==
    [i \in 1..Len(s) |->
        IF i = 1 \/ ~IsAlpha(s[i - 1]) THEN UpperChar(s[i]) ELSE LowerChar(s[i])]

str_upper(c) == IF IsNull(c) THEN NaN ELSE Some(StrUpper(Val(c)))

str_strip(c) == IF IsNull(c) THEN NaN ELSE Some(StrStrip(Val(c)))

str_title(c) == IF IsNull(c) THEN NaN ELSE Some(StrTitle(Val(c)))

----------------------------------------------------------------------------
(* Floats that are quotients of integers *)

Abs(n) == IF n < 0 THEN 0 - n ELSE n

RECURSIVE Gcd(_, _)
Gcd(a, b) == IF b = 0 THEN a ELSE Gcd(b, a % b)

Sign(n) == IF n < 0 THEN 0 - 1 ELSE IF n = 0 THEN 0 ELSE 1

(* n / d in IEEE arithmetic: 0/0 is NaN, x/0 is +-inf *)
FloatDiv(n, d) ==
    IF d = 0 THEN (IF n = 0 THEN NaN ELSE Some(<<Sign(n), 0>>))
    ELSE LET g == Gcd(Abs(n), Abs(d))
             s == Sign(d)
         IN  Some(<<(s * n) \div g, (s * d) \div g>>)


----------------------------------------------------------------------------
(* DataFrames *)

Cols(d) == IF d = <<>> THEN {} ELSE DOMAIN d[1]

(* df[c] = F(row) for every row: add or overwrite column c *)
SetCol(row, c, v) == [k \in (DOMAIN row) \cup {c} |-> IF k = c THEN v ELSE row[k]]

(* The frame without column c *)
DropCol(d, c) == [i \in 1..Len(d) |-> [k \in (DOMAIN d[i]) \ {c} |-> d[i][k]]]

(* The dtype pandas infers for a text column read from CSV is object exactly *)
(* when some cell is present and is not a number; an all-empty or all-numeric *)
(* column is float64 / int64 and has no .str accessor (AttributeError).       *)
ObjectDtype(d, c) == \E i \in 1..Len(d) : NotNull(d[i][c]) /\ IsNull(to_numeric(d[i][c]))

required_str == {"street", "unit", "status"}

required_num == {"price", "bedrooms", "bathrooms", "max_residents"}

(* etl_pipeline.py 83-88: a missing required column is synthesized *)
EnsureRequired(row) ==
    [k \in (DOMAIN row) \cup required_str \cup required_num |->
        IF k \in DOMAIN row THEN row[k]
        ELSE IF k \in required_str THEN Some(<<>>) ELSE NaN]

(* A plausible slip: the thousands separator is left in *)
clean_price_dollar_only(c) == to_numeric(Some(StrRemove(astype_str(c), "$")))

(* 92-93: strip '$' and ',' from the text of the cell, then to_numeric *)
clean_price(c) == to_numeric(Some(StrRemove(StrRemove(astype_str(c), "$"), ",")))

(* 101-103: bedrooms.fillna(0).eq(0) | unit.str.lower().str.contains('studio') *)
is_studio(bedrooms, unit) ==
    \/ (IF IsNull(bedrooms) THEN 0 ELSE Val(bedrooms)) = 0
    \/ str_contains(str_lower(unit), <<"s","t","u","d","i","o">>)

(* 108: fillna('available').str.lower() *)
clean_status(c) ==
    str_lower(IF IsNull(c) THEN Some(<<"a","v","a","i","l","a","b","l","e">>) ELSE c)

(* 112: pet_policy.str.lower().str.contains('friendly|allowed', na=False) *)
pet_friendly(c) ==
    \/ str_contains(str_lower(c), <<"f","r","i","e","n","d","l","y">>)
    \/ str_contains(str_lower(c), <<"a","l","l","o","w","e","d">>)

(* A plausible slip: integer division of price by max_residents *)
price_per_person_floor(price, max_residents) ==
    IF IsNull(price) \/ IsNull(max_residents) \/ Val(max_residents) = 0 THEN NaN
    ELSE Some(<<Val(price) \div Val(max_residents), 1>>)

(* 117-118: price / max_residents, then NaN where max_residents is NaN or 0 *)
price_per_person(price, max_residents) ==
    LET q == IF IsNull(price) \/ IsNull(max_residents) THEN NaN
             ELSE FloatDiv(Val(price), Val(max_residents))
    IN  IF IsNull(max_residents) \/ Val(max_residents) = 0 THEN NaN ELSE q

SameKey(r1, r2) == r1.street = r2.street /\ r1.unit = r2.unit

(* A plausible slip: keep='first' *)
drop_duplicates_first(d) ==
    LET keep == {i \in 1..Len(d) : ~\E j \in 1..(i - 1) : SameKey(d[i], d[j])}
        F[i \in 0..Len(d)] ==
            IF i = 0 THEN <<>>
            ELSE IF i \in keep THEN Append(F[i - 1], d[i]) ELSE F[i - 1]
    IN  F[Len(d)]

(* 122: drop_duplicates(subset=['street','unit'], keep='last'); missing keys *)
(* compare equal to each other                                               *)
drop_duplicates(d) ==
    LET keep == {i \in 1..Len(d) : ~\E j \in (i + 1)..Len(d) : SameKey(d[i], d[j])}
        F[i \in 0..Len(d)] ==
            IF i = 0 THEN <<>>
            ELSE IF i \in keep THEN Append(F[i - 1], d[i]) ELSE F[i - 1]
    IN  F[Len(d)]

(* Lines 90-118 on one row, the row-wise part of the transform *)
TransformRow(row) ==
    LET r0 == EnsureRequired(row)
        p  == clean_price(r0.price)
        b  == to_numeric(r0.bedrooms)
        ba == to_numeric(r0.bathrooms)
        m  == to_numeric(r0.max_residents)
        r1 == [k \in DOMAIN r0 |->
                 CASE k = "price" -> p
                   [] k = "bedrooms" -> b
                   [] k = "bathrooms" -> ba
                   [] k = "max_residents" -> m
                   [] k = "status" -> clean_status(r0.status)
                   [] OTHER -> r0[k]]
        r2 == SetCol(r1, "is_studio", is_studio(b, r0.unit))
        r3 == IF "pet_friendly" \in DOMAIN r2 THEN r2
              ELSE IF "pet_policy" \in DOMAIN r2
                   THEN SetCol(r2, "pet_friendly", pet_friendly(r2.pet_policy))
                   ELSE SetCol(r2, "pet_friendly", FALSE)
        r4 == SetCol(r3, "price_per_person", price_per_person(p, m))
    IN  r4

(* 125-127 *)
EnsureDates(row) ==
    [k \in (DOMAIN row) \cup {"avail_start", "avail_end"} |->
        IF k \in DOMAIN row THEN row[k] ELSE Some(<<>>)]

(* The .str accessors of lines 103, 108 and 112 raise AttributeError on a   *)
(* column that is not of object dtype                                        *)
StrAccessorsOk(d) ==
    LET e == [i \in 1..Len(d) |-> EnsureRequired(d[i])]
        filled == [i \in 1..Len(d) |->
                     SetCol(e[i], "status",
                            IF IsNull(e[i].status) THEN Some(<<"a">>) ELSE e[i].status)]
    IN  /\ ObjectDtype(e, "unit")
        /\ ObjectDtype(filled, "status")
        /\ ("pet_friendly" \notin Cols(e) /\ "pet_policy" \in Cols(e))
              => ObjectDtype(e, "pet_policy")

Returned(rows) == [raised |-> FALSE, rows |-> rows]

Raised == [raised |-> TRUE, rows |-> <<>>]

(* ETLPipeline.transform_housing_data *)
transform_housing_data(d) ==
    IF d = <<>> THEN Returned(d)
    ELSE IF ~StrAccessorsOk(d) THEN Raised
    ELSE LET t == [i \in 1..Len(d) |-> TransformRow(d[i])]
             u == drop_duplicates(t)
         IN  Returned([i \in 1..Len(u) |-> EnsureDates(u[i])])

(* The dtype of a numeric column: float64 when a cell is missing, else int64 *)
FloatColumn(d, c) == \E i \in 1..Len(d) : IsNull(d[i][c])

(* Lines 90-118 on one row of a frame that has the columns and dtypes of the *)
(* transform's own output: price is numeric and goes through astype(str),   *)
(* to_numeric leaves the numeric columns as they are, pet_friendly exists    *)
TransformTypedRow(d, row) ==
    LET p == to_numeric(Some(StrRemove(StrRemove(
                 astype_str_num(row.price, FloatColumn(d, "price")), "$"), ",")))
        r1 == [k \in DOMAIN row |->
                 CASE k = "price" -> p
                   [] k = "status" -> clean_status(row.status)
                   [] k = "is_studio" -> is_studio(row.bedrooms, row.unit)
                   [] k = "price_per_person" -> price_per_person(p, row.max_residents)
                   [] OTHER -> row[k]]
    IN  r1

(* ETLPipeline.transform_housing_data on a frame it has returned *)
transform_housing_data_typed(d) ==
    IF d = <<>> THEN Returned(d)
    ELSE IF ~(ObjectDtype(d, "unit") /\ ObjectDtype(d, "status")) THEN Raised
    ELSE LET t == [i \in 1..Len(d) |-> TransformTypedRow(d, d[i])]
             u == drop_duplicates(t)
         IN  Returned([i \in 1..Len(u) |-> EnsureDates(u[i])])

(* A plausible slip: no copy, the column assignments of lines 83-118 go to   *)
(* the frame of the caller                                                   *)
after_copy_shared(d, work) == work

(* 67: df = df.copy(): the assignments that follow go to the copy, and the  *)
(* frame of the caller keeps its columns and cells                           *)
after_copy(d, work) == d

(* The caller's frame once transform_housing_data is over: line 64 returns  *)
(* it untouched, lines 83-118 assign columns, line 122 rebinds the name     *)
caller_frame(d) ==
    IF d = <<>> THEN d
    ELSE after_copy(d, [i \in 1..Len(d) |-> TransformRow(d[i])])

required_cols == {"major", "course_code", "title"}

(* A plausible slip: the required columns are not looked for *)
missing_required_none(d) == {}

(* 145-149: the required columns the frame lacks *)
missing_required(d) == required_cols \ Cols(d)

(* 152-163 on one row *)
CleanCourseRow(row) ==
    [k \in DOMAIN row |->
        CASE k = "course_code" -> str_strip(str_upper(row[k]))
          [] k = "major" -> str_strip(row[k])
          [] k = "quarter" -> str_title(str_strip(row[k]))
          [] k = "status" -> str_strip(str_lower(row[k]))
          [] OTHER -> row[k]]

(* A plausible slip: keep='first' *)
drop_duplicate_courses_first(d) ==
    LET keep == {i \in 1..Len(d) :
                    ~\E j \in 1..(i - 1) :
                        d[i].major = d[j].major /\ d[i].course_code = d[j].course_code}
        F[i \in 0..Len(d)] ==
            IF i = 0 THEN <<>>
            ELSE IF i \in keep THEN Append(F[i - 1], d[i]) ELSE F[i - 1]
    IN  F[Len(d)]

(* 166: drop_duplicates(subset=['major', 'course_code'], keep='last') *)
drop_duplicate_courses(d) ==
    LET keep == {i \in 1..Len(d) :
                    ~\E j \in (i + 1)..Len(d) :
                        d[i].major = d[j].major /\ d[i].course_code = d[j].course_code}
        F[i \in 0..Len(d)] ==
            IF i = 0 THEN <<>>
            ELSE IF i \in keep THEN Append(F[i - 1], d[i]) ELSE F[i - 1]
    IN  F[Len(d)]

(* The .str accessors of lines 152-163 raise on a column that is not of     *)
(* object dtype; a lacking required column is a KeyError                     *)
CourseAccessorsOk(d) ==
    /\ required_cols \subseteq Cols(d)
    /\ \A c \in {"course_code", "major", "quarter", "status"} \cap Cols(d) :
          ObjectDtype(d, c)

(* ETLPipeline.transform_course_data *)
transform_course_data(d) ==
    IF d = <<>> THEN Returned(d)
    ELSE IF missing_required(d) # {} THEN Returned(<<>>)
    ELSE IF ~CourseAccessorsOk(d) THEN Raised
    ELSE Returned(drop_duplicate_courses([i \in 1..Len(d) |-> CleanCourseRow(d[i])]))

----------------------------------------------------------------------------
(* The database (db_manager.py): tables as sequences of rows in rowid order, *)
(* sqlite_sequence as the AUTOINCREMENT counters                             *)

TABLES == {"housing", "courses", "offerings", "professor_reviews", "user_plans",
           "housing_clusters"}

(* DatabaseManager.initialize_database on a new file: the tables exist and   *)
(* are empty                                                                 *)
EmptyDb ==
    [housing |-> <<>>, courses |-> <<>>, offerings |-> <<>>, professor_reviews |-> <<>>,
     user_plans |-> <<>>, housing_clusters |-> <<>>,
     seq |-> [t \in TABLES |-> 0], schema |-> TABLES]

(* A plausible slip: the table is dropped and created anew *)
create_table_anew(d, t) == [d EXCEPT ![t] = <<>>, !.seq[t] = 0, !.schema = @ \cup {t}]

(* CREATE TABLE IF NOT EXISTS t: a table that exists is left as it is *)
create_table(d, t) ==
    IF t \in d.schema THEN d
    ELSE [d EXCEPT ![t] = <<>>, !.seq[t] = 0, !.schema = @ \cup {t}]

RECURSIVE CreateAll(_, _)
CreateAll(d, ts) ==
    IF ts = <<>> THEN d ELSE CreateAll(create_table(d, Head(ts)), Tail(ts))

(* DatabaseManager.initialize_database, lines 39-138: the six CREATE TABLE   *)
(* IF NOT EXISTS statements in one transaction                               *)
initialize_database(d) ==
    [raised |-> FALSE, value |-> <<>>,
     tx |-> CreateAll(d, <<"housing", "courses", "offerings", "professor_reviews",
                           "user_plans", "housing_clusters">>)]

(* INSERT of one row into table t: the id is sqlite_sequence + 1 *)
InsertRow(d, t, row) ==
    LET id == d.seq[t] + 1 IN
    [d EXCEPT ![t] = Append(@, SetCol(row, "id", id)), !.seq[t] = id]

StmtOk(d, v) == [raised |-> FALSE, tx |-> d, value |-> v]

(* A statement that fails (NOT NULL constraint failed: IntegrityError) leaves *)
(* the transaction as it was before the statement                             *)
StmtRaise(d) == [raised |-> TRUE, tx |-> d, value |-> <<>>]

CourseKey(r) == <<r.major, r.course_code>>

(* A plausible slip: ON CONFLICT DO NOTHING *)
insert_course_ignore(d, data, adv) ==
    IF IsNull(data.major) \/ IsNull(data.course_code) \/ IsNull(data.title)
    THEN StmtRaise(d)
    ELSE IF \E i \in 1..Len(d.courses) : CourseKey(d.courses[i]) = CourseKey(data)
         THEN StmtOk([d EXCEPT !.seq.courses = @ + adv], 0)
         ELSE StmtOk(InsertRow(d, "courses", data), d.seq.courses + 1)

(* A plausible slip: INSERT OR REPLACE, which deletes the row in conflict and *)
(* inserts the new one under a new id                                         *)
insert_course_replace(d, data, adv) ==
    IF IsNull(data.major) \/ IsNull(data.course_code) \/ IsNull(data.title)
    THEN StmtRaise(d)
    ELSE LET kept == SelectSeq(d.courses, LAMBDA r : CourseKey(r) # CourseKey(data))
         IN  StmtOk(InsertRow([d EXCEPT !.courses = kept], "courses", data),
                    d.seq.courses + 1)

(* DatabaseManager.insert_course, lines 200-212: INSERT ... ON CONFLICT(major, *)
(* course_code) DO UPDATE, returning cursor.lastrowid.  major, course_code    *)
(* and title are NOT NULL.  On the update path no row is inserted, so the      *)
(* fresh connection's last insert rowid is still 0; whether the AUTOINCREMENT  *)
(* counter has advanced by then is the engine's choice (adv).                  *)
insert_course(d, data, adv) ==
    IF IsNull(data.major) \/ IsNull(data.course_code) \/ IsNull(data.title)
    THEN StmtRaise(d)
    ELSE IF \E i \in 1..Len(d.courses) : CourseKey(d.courses[i]) = CourseKey(data)
         THEN StmtOk([d EXCEPT
                        !.courses = [i \in 1..Len(@) |->
                            IF CourseKey(@[i]) = CourseKey(data)
                            THEN [@[i] EXCEPT !.title = data.title,
                                              !.units = data.units,
                                              !.level = data.level,
                                              !.description = data.description]
                            ELSE @[i]],
                        !.seq.courses = @ + adv], 0)
         ELSE StmtOk(InsertRow(d, "courses", data), d.seq.courses + 1)

(* A plausible slip: the INSERT made idempotent on (course_id, quarter, year) *)
load_course_offering_unique(d, data) ==
    IF IsNull(data.quarter) \/ IsNull(data.course_id) THEN StmtRaise(d)
    ELSE IF \E i \in 1..Len(d.offerings) :
                /\ d.offerings[i].course_id = data.course_id
                /\ d.offerings[i].quarter = data.quarter
                /\ d.offerings[i].year = data.year
         THEN StmtOk(d, <<>>)
         ELSE StmtOk(InsertRow(d, "offerings", data), <<>>)

(* ETLPipeline.load_course_offering, lines 239-248: a plain INSERT;          *)
(* course_id and quarter are NOT NULL                                        *)
load_course_offering(d, data) ==
    IF IsNull(data.quarter) \/ IsNull(data.course_id) THEN StmtRaise(d)
    ELSE StmtOk(InsertRow(d, "offerings", data), <<>>)

HOUSING_BOOL == {"pet_friendly", "is_studio"}

(* What sqlite3 stores for a cell: a bool as 1 / 0, NaN and None as NULL *)
SqlValue(c, v) == IF c \in HOUSING_BOOL THEN Some(IF v THEN 1 ELSE 0) ELSE v

NOW == Some(<<"n","o","w">>)

(* One DataFrame row as a housing row: the timestamp columns take their      *)
(* DEFAULT CURRENT_TIMESTAMP                                                 *)
HousingRow(row) ==
    [k \in (DOMAIN row) \cup {"created_at", "updated_at"} |->
        IF k \in DOMAIN row THEN SqlValue(k, row[k]) ELSE NOW]

RECURSIVE InsertAll(_, _, _)
InsertAll(d, t, rows) ==
    IF rows = <<>> THEN d ELSE InsertAll(InsertRow(d, t, Head(rows)), t, Tail(rows))

(* A plausible slip: if_exists='replace', the table holds this batch only *)
bulk_insert_housing_replace(d, frame) ==
    IF \E i \in 1..Len(frame) : IsNull(frame[i].street) THEN StmtRaise(d)
    ELSE StmtOk(InsertAll([d EXCEPT !.housing = <<>>, !.seq.housing = 0], "housing",
                          [i \in 1..Len(frame) |-> HousingRow(frame[i])]), <<>>)

(* DatabaseManager.bulk_insert_housing, line 191: to_sql(if_exists='append'). *)
(* The rows go in as one executemany; street is NOT NULL, and a failing row   *)
(* fails the whole insert.                                                     *)
bulk_insert_housing(d, frame) ==
    IF \E i \in 1..Len(frame) : IsNull(frame[i].street) THEN StmtRaise(d)
    ELSE StmtOk(InsertAll(d, "housing",
                          [i \in 1..Len(frame) |-> HousingRow(frame[i])]), <<>>)

(* DatabaseManager.get_housing_listings(None), lines 165-186: SELECT * FROM  *)
(* housing                                                                   *)
get_housing_listings(d) == StmtOk(d, d.housing)

Min2(a, b) == IF a < b THEN a ELSE b

(* executemany of lines 274-277 after the DELETE: the rows before the first  *)
(* one that violates NOT NULL (housing_id, cluster_id) are inserted, then    *)
(* the statement raises                                                      *)
RECURSIVE InsertClusters(_, _)
InsertClusters(d, rows) ==
    IF rows = <<>> THEN StmtOk(d, <<>>)
    ELSE IF IsNull(Head(rows).housing_id) \/ IsNull(Head(rows).cluster_id)
         THEN StmtRaise(d)
         ELSE InsertClusters(InsertRow(d, "housing_clusters", Head(rows)), Tail(rows))

(* A plausible slip: the old assignments are not cleared *)
save_housing_clusters_append(d, a) ==
    LET n == Min2(Len(a.housing_ids), Min2(Len(a.cluster_ids), Len(a.cluster_labels)))
        data == [i \in 1..n |-> [housing_id |-> a.housing_ids[i],
                                 cluster_id |-> a.cluster_ids[i],
                                 cluster_label |-> a.cluster_labels[i]]]
    IN  InsertClusters(d, data)

(* DatabaseManager.save_housing_clusters, lines 267-278: DELETE FROM         *)
(* housing_clusters, then the zip of the three lists is inserted             *)
save_housing_clusters(d, a) ==
    LET n == Min2(Len(a.housing_ids), Min2(Len(a.cluster_ids), Len(a.cluster_labels)))
        data == [i \in 1..n |-> [housing_id |-> a.housing_ids[i],
                                 cluster_id |-> a.cluster_ids[i],
                                 cluster_label |-> a.cluster_labels[i]]]
    IN  InsertClusters([d EXCEPT !.housing_clusters = <<>>], data)

(* The body of the with-block of each operation, run on the connection's view *)
Body(o, d, adv) ==
    CASE o.name = "insert_course" -> insert_course(d, o.arg, adv)
      [] o.name = "load_course_offering" -> load_course_offering(d, o.arg)
      [] o.name = "bulk_insert_housing" -> bulk_insert_housing(d, o.arg)
      [] o.name = "get_housing_listings" -> get_housing_listings(d)
      [] o.name = "save_housing_clusters" -> save_housing_clusters(d, o.arg)
      [] o.name = "initialize_database" -> initialize_database(d)

(* The engine may advance the AUTOINCREMENT counter only on the upsert's     *)
(* conflict path                                                             *)
AdvChoices(o, d) ==
    IF /\ o.name = "insert_course"
       /\ \E i \in 1..Len(d.courses) : CourseKey(d.courses[i]) = CourseKey(o.arg)
    THEN {0, 1} ELSE {0}

----------------------------------------------------------------------------
(* DatabaseManager.get_connection, lines 22-35, one step per line *)

NoHist == [opened |-> 0, closed |-> 0, commits |-> 0, rollbacks |-> 0, body_raised |-> FALSE]

NoOp == [name |-> "none", arg |-> <<>>]

NoRes == [raised |-> FALSE, value |-> <<>>]

(* A caller enters `with self.get_connection() as conn` for operation o *)
Enter(o) ==
    /\ pc' = "connect"
    /\ op' = o
    /\ res' = NoRes
    /\ hist' = NoHist
    /\ pre' = db
    /\ UNCHANGED <<db, tx, nopen, upserts, calls>>

(* The caller has the outcome of the block and no operation is in progress *)
Leave ==
    /\ pc' = "idle"
    /\ UNCHANGED <<db, tx, nopen, op, res, hist, pre, upserts, calls>>

(* 25: conn = sqlite3.connect(self.db_path) *)
GcConnect ==
    /\ pc = "connect"
    /\ tx' = Some(db)
    /\ nopen' = nopen + 1
    /\ hist' = [hist EXCEPT !.opened = @ + 1]
    /\ pc' = "body"
    /\ UNCHANGED <<db, op, res, pre, upserts, calls, df, out, etlvars>>
    /\ UNCHANGED extvars

(* A plausible slip: the commit sits in the finally clause, so it runs on    *)
(* the exception path as well                                                *)
after_body_commit(raised) == "commit"

(* 28-30: the with-body ran; an exception goes to the except clause *)
after_body(raised) == IF raised THEN "except" ELSE "commit"

(* 28: yield conn, the body of the with-block *)
GcBody ==
    /\ pc = "body"
    /\ \E adv \in AdvChoices(op, Val(tx)) :
          LET r == Body(op, Val(tx), adv) IN
          /\ tx' = Some(r.tx)
          /\ res' = [raised |-> FALSE, value |-> r.value]
          /\ hist' = [hist EXCEPT !.body_raised = r.raised]
          /\ pc' = after_body(r.raised)
    /\ UNCHANGED <<db, nopen, op, pre, upserts, calls, df, out, etlvars>>
    /\ UNCHANGED extvars

(* 29: conn.commit() *)
GcCommit ==
    /\ pc = "commit"
    /\ db' = Val(tx)
    /\ hist' = [hist EXCEPT !.commits = @ + 1]
    /\ pc' = "finally"
    /\ res' = [raised |-> hist.body_raised,
               value |-> IF hist.body_raised THEN <<>> ELSE res.value]
    /\ UNCHANGED <<tx, nopen, op, pre, upserts, calls, df, out, etlvars>>
    /\ UNCHANGED extvars

(* 31-33: conn.rollback(); logger.error(...); raise *)
GcExcept ==
    /\ pc = "except"
    /\ tx' = Some(db)
    /\ hist' = [hist EXCEPT !.rollbacks = @ + 1]
    /\ res' = [raised |-> TRUE, value |-> <<>>]
    /\ pc' = "finally"
    /\ UNCHANGED <<db, nopen, op, pre, upserts, calls, df, out, etlvars>>
    /\ UNCHANGED extvars

(* A plausible slip: close() at the end of the try block instead of in a     *)
(* finally clause                                                            *)
closes_unless_raised(raised) == ~raised

(* 34-35: finally: conn.close(), on every path *)
closes(raised) == TRUE

(* The returned insert_course calls per key, kept for the claims *)
NoteUpsert(u, o, r) ==
    IF o.name = "insert_course" /\ ~r.raised
    THEN [k \in (DOMAIN u) \cup {CourseKey(o.arg)} |->
            IF k = CourseKey(o.arg)
            THEN [n |-> (IF k \in DOMAIN u THEN u[k].n ELSE 0) + 1,
                  data |-> o.arg,
                  differs |-> (k \in DOMAIN u /\ u[k].data.title # o.arg.title)]
            ELSE u[k]]
    ELSE u

(* 35: conn.close() discards whatever the connection has not committed *)
GcFinally ==
    /\ pc = "finally"
    /\ IF closes(res.raised)
       THEN /\ tx' = <<>>
            /\ nopen' = nopen - 1
            /\ hist' = [hist EXCEPT !.closed = @ + 1]
       ELSE UNCHANGED <<tx, nopen, hist>>
    /\ upserts' = NoteUpsert(upserts, op, res)
    /\ calls' = calls + 1
    /\ pc' = "done"
    /\ UNCHANGED <<db, op, res, pre, df, out, etlvars>>
    /\ UNCHANGED extvars

get_connection == GcConnect \/ GcBody \/ GcCommit \/ GcExcept \/ GcFinally

InitDb ==
    /\ db = EmptyDb
    /\ tx = <<>>
    /\ nopen = 0
    /\ pc = "idle"
    /\ op = NoOp
    /\ res = NoRes
    /\ hist = NoHist
    /\ pre = EmptyDb
    /\ upserts = <<>>
    /\ calls = 0

----------------------------------------------------------------------------
(* ETLPipeline: extract and load (etl_pipeline.py) *)

(* row.get(c): None when the row has no such column *)
Get(row, c) == IF c \in DOMAIN row THEN row[c] ELSE NaN

(* extract_housing_csv, lines 31-37: a file that cannot be read gives an     *)
(* empty DataFrame                                                           *)
extract_housing_csv(file) == IF IsNull(file) THEN <<>> ELSE Val(file)

(* extract_courses_csv, lines 49-55: the same for the course file *)
extract_courses_csv(file) == IF IsNull(file) THEN <<>> ELSE Val(file)

db_columns == {"street", "unit", "price", "bedrooms", "bathrooms", "max_residents",
               "status", "avail_start", "avail_end", "utilities", "pet_policy",
               "pet_friendly", "is_studio", "latitude", "longitude"}

(* load_housing_data, lines 182-194: missing columns are added (None, or     *)
(* False for the two flags) and df[db_columns] is what goes to the database  *)
load_frame(rows) ==
    [i \in 1..Len(rows) |->
        [c \in db_columns |->
            IF c \in DOMAIN rows[i] THEN rows[i][c]
            ELSE IF c \in HOUSING_BOOL THEN FALSE ELSE NaN]]

(* load_course_data, lines 210-217 *)
course_data(row) ==
    [major |-> row.major, course_code |-> row.course_code, title |-> row.title,
     units |-> Get(row, "units"), level |-> Get(row, "level"),
     description |-> Get(row, "description")]

(* 221: 'quarter' in row and pd.notna(row['quarter']) *)
has_quarter(row) == "quarter" \in DOMAIN row /\ NotNull(row.quarter)

(* 222-230 *)
offering_data(row, course_id) ==
    [course_id |-> Some(course_id), quarter |-> row.quarter, year |-> Get(row, "year"),
     status |-> Get(row, "status"), instructor |-> Get(row, "instructor"),
     seats_available |-> Get(row, "seats_available"), notes |-> Get(row, "notes")]

NoEtl == [name |-> "none", i |-> 0, phase |-> "none"]

NoRuns == [returned |-> 0, raised |-> 0, course |-> 0]

Idle == pc = "idle" /\ etl.name = "none"

InitEtl ==
    /\ csv = NaN
    /\ courses_csv = NaN
    /\ batch = <<>>
    /\ etl = NoEtl
    /\ runs = NoRuns
    /\ readback = <<>> /\ report = <<>>

(* An ETLPipeline method returns (or lets the exception through) *)
Finish(raised) ==
    /\ runs' = IF raised THEN [runs EXCEPT !.raised = @ + 1]
               ELSE [runs EXCEPT !.returned = @ + 1]
    /\ etl' = NoEtl

critical_fields == {"street", "price", "bedrooms"}

(* A plausible slip: the missing cells are filled with -1 before the range  *)
(* test, so that they count as out of range                                  *)
out_of_range_filled(c, hi) == IsNull(c) \/ Val(c) < 0 \/ Val(c) > hi

(* 315, 321: (x < 0) | (x > hi); every comparison with NaN is False *)
out_of_range(c, hi) == NotNull(c) /\ (Val(c) < 0 \/ Val(c) > hi)

(* 309: df[field].isna().sum() *)
CountMissing(d, f) == Cardinality({i \in 1..Len(d) : IsNull(d[i][f])})

(* 317, 323: invalid.sum() *)
CountOutOfRange(d, f, hi) == Cardinality({i \in 1..Len(d) : out_of_range(d[i][f], hi)})

(* A dict that holds the positive counts only *)
Positive(counts) == [f \in {g \in DOMAIN counts : counts[g] > 0} |-> counts[f]]

(* ETLPipeline.validate_housing_data, lines 298-325 *)
validate_housing_data(d) ==
    [total_records |-> Len(d),
     missing_values |->
        Positive([f \in critical_fields \cap Cols(d) |-> CountMissing(d, f)]),
     invalid_values |->
        Positive([f \in {"price", "bedrooms"} \cap Cols(d) |->
                    CountOutOfRange(d, f, IF f = "price" THEN 10000 ELSE 10)]),
     warnings |-> <<>>]

----------------------------------------------------------------------------
(* The dashboard's own readers of the housing CSV: normalize_csv_df          *)
(* (housing_page.py) and load_housing_df (gauchoGPT.py).  The cells are the  *)
(* texts of the file; the text columns of the inputs hold no numbers, so     *)
(* astype(str) gives a present cell back as it is.                           *)

EMPTY == Some(<<>>)

(* The first of the columns `names` that the frame has, else the default *)
RECURSIVE Pick(_, _, _)
Pick(row, names, default) ==
    IF names = <<>> THEN default
    ELSE IF Head(names) \in DOMAIN row THEN row[Head(names)]
         ELSE Pick(row, Tail(names), default)

(* housing_page.py 59-69, _to_num: the first run of digits and commas that  *)
(* starts with a digit, the commas removed                                   *)
to_num(c) ==
    IF IsNull(c) THEN NaN
    ELSE LET s == Val(c)
             ds == {i \in 1..Len(s) : IsDigit(s[i])}
         IN  IF ds = {} THEN NaN
             ELSE LET a == CHOOSE i \in ds : \A j \in ds : i <= j
                      run == {j \in a..Len(s) :
                                 \A k \in a..j : IsDigit(s[k]) \/ s[k] = ","}
                      b == CHOOSE j \in run : \A k \in run : k <= j
                  IN  Some(DigitsVal(StrRemove(SubSeq(s, a, b), ",")))

(* 95, 98: astype(str).str.lower().str.strip() *)
status_text(c) == Some(StrStrip(StrLower(astype_str(c))))

(* 159: fillna("").astype(str) *)
fill_text(c) == IF IsNull(c) THEN EMPTY ELSE c

(* housing_page.py 72-161 on one row *)
NormalizeCsvRow(row) ==
    LET status_raw == Pick(row, <<"status_raw", "status">>, EMPTY)
        bedrooms == to_numeric(Pick(row, <<"bedrooms", "beds">>, NaN))
    IN  [street |-> fill_text(Pick(row, <<"street", "address", "title">>, EMPTY)),
         unit |-> fill_text(Pick(row, <<"unit">>, EMPTY)),
         status_raw |-> fill_text(status_raw),
         status |-> IF {"status_raw", "status"} \cap DOMAIN row = {} THEN EMPTY
                    ELSE status_text(status_raw),
         price |-> to_num(Pick(row, <<"price", "rent">>, NaN)),
         bedrooms |-> bedrooms,
         bathrooms |-> to_numeric(Pick(row, <<"bathrooms", "baths">>, NaN)),
         max_residents |-> to_numeric(Pick(row, <<"max_residents", "max_occupancy">>, NaN)),
         pet_policy |-> fill_text(Pick(row, <<"pet_policy">>,
                            Some(<<"P","e","t"," ","f","r","i","e","n","d","l","y">>))),
         pet_friendly |-> Pick(row, <<"pet_friendly">>, NaN),
         utilities |-> fill_text(Pick(row, <<"utilities">>, EMPTY)),
         image_url |-> fill_text(Pick(row, <<"image_url">>, EMPTY)),
         listing_url |-> fill_text(Pick(row, <<"listing_url", "details_url", "url">>, EMPTY)),
         is_studio |-> (IF IsNull(bedrooms) THEN 0 - 1 ELSE Val(bedrooms)) = 0]

(* normalize_csv_df *)
normalize_csv_df(d) == Returned([i \in 1..Len(d) |-> NormalizeCsvRow(d[i])])

loader_cols == {"street", "unit", "avail_start", "avail_end", "price", "bedrooms",
                "bathrooms", "max_residents", "utilities", "pet_policy", "pet_friendly"}

(* gauchoGPT.py 255: astype(bool); the None of a column that line 240 added *)
(* is False, and a pet_friendly column of the file holds True / False        *)
as_bool(had_column, c) == IF had_column THEN c ELSE FALSE

(* gauchoGPT.py 234-263 on one row *)
LoadHousingRow(row) ==
    LET r0 == [k \in (DOMAIN row) \cup loader_cols \cup {"status"} |->
                  IF k \in DOMAIN row THEN row[k]
                  ELSE IF k = "status" THEN Some(<<"a","v","a","i","l","a","b","l","e">>)
                  ELSE NaN]
        p == to_numeric(r0.price)
        b == to_numeric(r0.bedrooms)
        m == to_numeric(r0.max_residents)
        r1 == [k \in DOMAIN r0 |->
                 CASE k = "price" -> p
                   [] k = "bedrooms" -> b
                   [] k = "bathrooms" -> to_numeric(r0.bathrooms)
                   [] k = "max_residents" -> m
                   [] k = "pet_friendly" -> as_bool("pet_friendly" \in DOMAIN row, r0[k])
                   [] OTHER -> r0[k]]
        r2 == IF "is_studio" \in DOMAIN row THEN r1
              ELSE SetCol(r1, "is_studio", (IF IsNull(b) THEN 0 ELSE Val(b)) = 0)
    IN  SetCol(r2, "price_per_person",
               IF NotNull(p) /\ NotNull(m) /\ Val(m) > 0
               THEN FloatDiv(Val(p), Val(m)) ELSE NaN)

(* gauchoGPT.py 245-246: with no is_studio column, bedrooms.fillna(0)       *)
(* .astype(float) is taken from the raw column, before line 250 cleans it;  *)
(* a column that holds a text that is no number is a ValueError              *)
studio_cast_ok(d) ==
    "is_studio" \in Cols(d) \/ "bedrooms" \notin Cols(d) \/ ~ObjectDtype(d, "bedrooms")

(* load_housing_df on a file of at least one row; a missing file is None *)
load_housing_df(file) ==
    IF IsNull(file) THEN Returned(<<>>)
    ELSE IF ~studio_cast_ok(Val(file)) THEN Raised
    ELSE Returned([i \in 1..Len(Val(file)) |-> LoadHousingRow(Val(file)[i])])

----------------------------------------------------------------------------
(* Inputs of the transform: the cells of a housing CSV *)

MaxRows == 2

T_SUENO == <<"S","u","e","n","o">>

T_UNIT_A == <<"U","n","i","t"," ","A">>

T_STUDIO_B == <<"S","T","U","D","I","O"," ","B">>

T_2450 == <<"$","2",",","4","5","0">>

T_AVAILABLE == <<" ","A","v","a","i","l","a","b","l","e"," ">>

T_PETS_ALLOWED == <<"P","e","t","s"," ","A","l","l","o","w","e","d">>

(* Rows that vary the price and the occupancy, and rows that vary the unit  *)
(* text and the bedroom count                                               *)
RawRows ==
    [street : {Some(T_SUENO)},
     unit : {Some(T_UNIT_A)},
     price : {Some(T_2450), NaN},
     bedrooms : {Some(<<"2">>)},
     bathrooms : {Some(<<"1">>)},
     max_residents : {Some(<<"4">>), Some(<<"0">>), Some(<<"-","2">>), NaN},
     status : {Some(T_AVAILABLE)},
     pet_policy : {Some(T_PETS_ALLOWED)}]
    \cup
    [street : {Some(T_SUENO)},
     unit : {Some(T_UNIT_A), Some(T_STUDIO_B), NaN},
     price : {Some(T_2450)},
     bedrooms : {Some(<<"0">>), Some(<<"2">>), NaN},
     bathrooms : {Some(<<"1">>)},
     max_residents : {Some(<<"4">>)},
     status : {Some(T_AVAILABLE)},
     pet_policy : {Some(T_PETS_ALLOWED)}]

SeqsUpTo(S, n) == UNION {[1..k -> S] : k \in 0..n}

InitTransform ==
    /\ df \in SeqsUpTo(RawRows, MaxRows)
    /\ out = <<>>
    /\ InitDb /\ NoExt /\ InitEtl

(* The outcome of a call of fn, as the caller sees it *)
Outcome(fn, r) == [fn |-> fn, raised |-> r.raised, rows |-> r.rows]

Transform ==
    /\ out = <<>>
    /\ out' = <<Outcome("transform_housing_data", transform_housing_data(df))>>
    /\ df' = caller_frame(df)
    /\ UNCHANGED <<dbvars, etlvars>>
    /\ UNCHANGED extvars

NextTransform == Transform

SpecTransform == InitTransform /\ [][NextTransform]_vars

Produced == out # <<>> /\ ~out[1].raised

OutRows == IF Produced THEN out[1].rows ELSE <<>>

T_NA == <<"n","/","a">>

T_LEASED == <<"L","E","A","S","E","D">>

T_TWO == <<"t","w","o">>

T_CAT_FRIENDLY == <<"C","a","t"," ","F","R","I","E","N","D","L","Y">>

T_NO_PETS == <<"N","o"," ","p","e","t","s">>

BaseRow ==
    [street |-> Some(T_SUENO), unit |-> Some(T_UNIT_A), price |-> Some(T_2450),
     bedrooms |-> Some(<<"2">>), bathrooms |-> Some(<<"1">>),
     max_residents |-> Some(<<"4">>), status |-> Some(T_AVAILABLE),
     pet_policy |-> Some(T_PETS_ALLOWED)]

(* Rows that differ from BaseRow in the price, in the status and the unit,  *)
(* in the numeric cells, or in the pet policy                                *)
CleanRows ==
    {[BaseRow EXCEPT !.price = p] : p \in {Some(T_2450), Some(T_NA), EMPTY, NaN}}
    \cup {[BaseRow EXCEPT !.status = t, !.unit = u] :
             t \in {Some(T_AVAILABLE), Some(T_LEASED), NaN},
             u \in {Some(T_UNIT_A), Some(T_STUDIO_B)}}
    \cup {[BaseRow EXCEPT !.bedrooms = b, !.max_residents = m] :
             b \in {Some(<<"2">>), Some(T_TWO)}, m \in {Some(<<"4">>), Some(T_TWO)}}
    \cup {[BaseRow EXCEPT !.pet_policy = t] :
             t \in {Some(T_PETS_ALLOWED), Some(T_CAT_FRIENDLY), Some(T_NO_PETS), NaN}}

(* Rows of a file that has a pet_friendly column *)
FlaggedRows ==
    {SetCol([BaseRow EXCEPT !.pet_policy = t], "pet_friendly", f) :
        t \in {Some(T_PETS_ALLOWED), Some(T_NO_PETS)}, f \in BOOLEAN}

(* The frames: every column, no pet_policy column, a pet_friendly column *)
CleanFrames ==
    SeqsUpTo(CleanRows, MaxRows)
    \cup {DropCol(f, "pet_policy") : f \in SeqsUpTo({BaseRow}, MaxRows)}
    \cup SeqsUpTo(FlaggedRows, MaxRows)

(* housing_page.py 337: df = normalize_csv_df(raw) *)
NormalizeCsvDf ==
    /\ out = <<>>
    /\ out' = <<Outcome("normalize_csv_df", normalize_csv_df(df))>>
    /\ UNCHANGED <<df, dbvars, etlvars>>
    /\ UNCHANGED extvars

(* gauchoGPT.py 314: df = load_housing_df(), the file having rows *)
LoadHousingDf ==
    /\ out = <<>> /\ df # <<>>
    /\ out' = <<Outcome("load_housing_df", load_housing_df(Some(df)))>>
    /\ UNCHANGED <<df, dbvars, etlvars>>
    /\ UNCHANGED extvars

InitClean ==
    /\ df \in CleanFrames
    /\ out = <<>>
    /\ InitDb /\ NoExt /\ InitEtl

NextClean ==
    \/ Transform
    \/ NormalizeCsvDf
    \/ LoadHousingDf

SpecClean == InitClean /\ [][NextClean]_vars

T_12000 == <<"$","1","2",",","0","0","0">>

(* Rows for the validator: the street, the price and the bedroom count are  *)
(* present or missing, in range or out of range                              *)
ValidRows ==
    [street : {Some(T_SUENO), NaN},
     unit : {Some(T_UNIT_A)},
     price : {Some(T_2450), Some(T_12000), Some(<<"-","5">>), NaN},
     bedrooms : {Some(<<"2">>)},
     bathrooms : {Some(<<"1">>)},
     max_residents : {Some(<<"4">>)},
     status : {Some(T_AVAILABLE)},
     pet_policy : {Some(T_PETS_ALLOWED)}]
    \cup
    [street : {Some(T_SUENO), NaN},
     unit : {Some(T_UNIT_A)},
     price : {Some(T_2450)},
     bedrooms : {Some(<<"2">>), Some(<<"1","1">>), Some(<<"-","1">>), NaN},
     bathrooms : {Some(<<"1">>)},
     max_residents : {Some(<<"4">>)},
     status : {Some(T_AVAILABLE)},
     pet_policy : {Some(T_PETS_ALLOWED)}]

(* validate_housing_data is called on the transformed batch *)
ValidateHousingData ==
    /\ Produced /\ report = <<>>
    /\ report' = Some(validate_housing_data(OutRows))
    /\ UNCHANGED <<df, out, dbvars, csv, courses_csv, batch, etl, runs, readback>>
    /\ UNCHANGED extvars

InitValidate ==
    /\ df \in SeqsUpTo(ValidRows, MaxRows)
    /\ out = <<>>
    /\ InitDb /\ NoExt /\ InitEtl

NextValidate ==
    \/ Transform
    \/ ValidateHousingData

SpecValidate == InitValidate /\ [][NextValidate]_vars

----------------------------------------------------------------------------
(* Inputs of the database operations *)

MaxCalls == 3

MaxRuns == 2

MaxLoads == 3

MaxBatch == 2

T_PSTAT == <<"P","S","T","A","T">>

T_120A == <<"1","2","0","A">>

T_120B == <<"1","2","0","B">>

T_PROB == <<"P","r","o","b">>

T_STATS == <<"S","t","a","t","s">>

T_FALL == <<"F","a","l","l">>

T_WINTER == <<"W","i","n","t","e","r">>

CourseData ==
    [major : {Some(T_PSTAT)},
     course_code : {Some(T_120A), Some(T_120B)},
     title : {Some(T_PROB), Some(T_STATS), NaN},
     units : {Some(<<"4">>), NaN},
     level : {NaN},
     description : {NaN}]

CourseRows ==
    [major : {Some(T_PSTAT)},
     course_code : {Some(T_120A), Some(T_120B)},
     title : {Some(T_PROB), NaN},
     quarter : {Some(T_FALL), Some(T_WINTER), NaN}]

CsvRows ==
    [street : {Some(T_SUENO), NaN},
     unit : {Some(T_UNIT_A), Some(T_STUDIO_B)},
     price : {Some(T_2450)},
     bedrooms : {Some(<<"2">>)},
     bathrooms : {Some(<<"1">>)},
     max_residents : {Some(<<"4">>)},
     status : {Some(T_AVAILABLE)},
     pet_policy : {Some(T_PETS_ALLOWED)}]

T_120A_LOWER == <<"1","2","0","a">>

T_FALL_RAW == <<" ","f","a","l","l"," ">>

(* The rows of a course CSV *)
CourseCsvRows ==
    [major : {Some(T_PSTAT)},
     course_code : {Some(T_120A_LOWER), Some(T_120B)},
     title : {Some(T_PROB), NaN},
     quarter : {Some(T_FALL_RAW), NaN}]
    \cup
    [major : {Some(T_PSTAT)},
     course_code : {Some(T_120A)},
     title : {Some(T_STATS)},
     quarter : {Some(T_WINTER)}]

(* Course files: with every column, and with one required column left out *)
CourseFiles ==
    LET full == UNION {[1..k -> CourseCsvRows] : k \in 0..MaxRows} IN
    full \cup {DropCol(f, c) : f \in full, c \in required_cols}

(* The frames a caller hands to bulk_insert_housing: load_frame of the       *)
(* transform of a one-row file, with or without a street                     *)
Frames ==
    {load_frame(transform_housing_data(<<r>>).rows) :
        r \in {x \in CsvRows : x.unit = Some(T_UNIT_A)}}

ClusterArgs ==
    [housing_ids : {<<Some(1)>>, <<Some(1), NaN>>, <<Some(2), Some(1)>>},
     cluster_ids : {<<Some(0), Some(1)>>},
     cluster_labels : {<<Some(<<"a">>), Some(<<"b">>)>>}]

----------------------------------------------------------------------------
(* Callers of DatabaseManager *)

CallInsertCourse ==
    /\ Idle /\ calls < MaxCalls
    /\ \E data \in CourseData : Enter([name |-> "insert_course", arg |-> data])
    /\ UNCHANGED <<df, out, etlvars>>
    /\ UNCHANGED extvars

CallBulkInsertHousing ==
    /\ Idle /\ calls < MaxCalls
    /\ \E frame \in Frames : Enter([name |-> "bulk_insert_housing", arg |-> frame])
    /\ UNCHANGED <<df, out, etlvars>>
    /\ UNCHANGED extvars

CallSaveHousingClusters ==
    /\ Idle /\ calls < MaxCalls
    /\ \E a \in ClusterArgs : Enter([name |-> "save_housing_clusters", arg |-> a])
    /\ UNCHANGED <<df, out, etlvars>>
    /\ UNCHANGED extvars

CallGetHousingListings ==
    /\ Idle /\ calls < MaxCalls
    /\ Enter([name |-> "get_housing_listings", arg |-> <<>>])
    /\ UNCHANGED <<df, out, etlvars>>
    /\ UNCHANGED extvars

(* DatabaseManager.__init__, lines 18-20: another manager is constructed on *)
(* the same file                                                             *)
CallInitializeDatabase ==
    /\ Idle /\ calls < MaxCalls
    /\ Enter([name |-> "initialize_database", arg |-> <<>>])
    /\ UNCHANGED <<df, out, etlvars>>
    /\ UNCHANGED extvars

(* The with-block is left: the caller has the return value or the exception *)
ClientReturn ==
    /\ pc = "done" /\ etl.name = "none"
    /\ Leave
    /\ readback' = IF op.name = "get_housing_listings" /\ ~res.raised
                   THEN Some([rows |-> res.value, after |-> runs.returned])
                   ELSE readback
    /\ UNCHANGED <<df, out, csv, courses_csv, batch, etl, runs, report>>
    /\ UNCHANGED extvars

(* ETLPipeline.run_housing_pipeline, lines 257-269: extract, transform, and  *)
(* the call of load_housing_data up to the with-block of bulk_insert_housing *)
RunHousingPipeline ==
    /\ Idle /\ runs.returned + runs.raised < MaxRuns
    /\ LET d == extract_housing_csv(csv)
           t == transform_housing_data(d)
       IN  IF d = <<>> \/ t.raised \/ t.rows = <<>>
           THEN /\ Finish(d # <<>> /\ t.raised)
                /\ UNCHANGED <<out, dbvars>>
           ELSE /\ out' = Some(t)
                /\ Enter([name |-> "bulk_insert_housing", arg |-> load_frame(t.rows)])
                /\ etl' = [name |-> "run_housing_pipeline", i |-> 0, phase |-> "load"]
                /\ UNCHANGED runs
    /\ UNCHANGED <<df, csv, courses_csv, batch, readback, report>>
    /\ UNCHANGED extvars

(* 269-271: load_housing_data is back *)
RunHousingReturn ==
    /\ pc = "done" /\ etl.name = "run_housing_pipeline"
    /\ Leave
    /\ Finish(res.raised)
    /\ UNCHANGED <<df, out, csv, courses_csv, batch, readback, report>>
    /\ UNCHANGED extvars

(* ETLPipeline.load_course_data, lines 204-218: the empty frame returns, any *)
(* other starts the loop with insert_course of its first row                  *)
LoadCourseData ==
    /\ Idle /\ runs.returned + runs.raised < MaxLoads
    /\ IF batch = <<>>
       THEN /\ Finish(FALSE)
            /\ UNCHANGED dbvars
       ELSE /\ Enter([name |-> "insert_course", arg |-> course_data(batch[1])])
            /\ etl' = [name |-> "load_course_data", i |-> 1, phase |-> "course"]
            /\ UNCHANGED runs
    /\ UNCHANGED <<df, out, csv, courses_csv, batch, readback, report>>
    /\ UNCHANGED extvars

(* The loop moves to the next row, or load_course_data returns *)
NextRow ==
    IF etl.i < Len(batch)
    THEN /\ Enter([name |-> "insert_course", arg |-> course_data(batch[etl.i + 1])])
         /\ etl' = [etl EXCEPT !.i = @ + 1, !.phase = "course"]
         /\ UNCHANGED runs
    ELSE /\ Leave
         /\ Finish(FALSE)

(* 218-231: insert_course is back with course_id, or has raised *)
LoadAfterCourse ==
    /\ pc = "done" /\ etl.name = "load_course_data" /\ etl.phase = "course"
    /\ IF res.raised
       THEN Leave /\ Finish(TRUE)
       ELSE IF has_quarter(batch[etl.i])
            THEN /\ Enter([name |-> "load_course_offering",
                           arg |-> offering_data(batch[etl.i], res.value)])
                 /\ etl' = [etl EXCEPT !.phase = "offering"]
                 /\ UNCHANGED runs
            ELSE NextRow
    /\ UNCHANGED <<df, out, csv, courses_csv, batch, readback, report>>
    /\ UNCHANGED extvars

(* 231: load_course_offering is back *)
LoadAfterOffering ==
    /\ pc = "done" /\ etl.name = "load_course_data" /\ etl.phase = "offering"
    /\ IF res.raised THEN Leave /\ Finish(TRUE) ELSE NextRow
    /\ UNCHANGED <<df, out, csv, courses_csv, batch, readback, report>>
    /\ UNCHANGED extvars

(* ETLPipeline.run_course_pipeline, lines 278-290: extract, transform, and  *)
(* load_course_data up to the insert_course of the first row                 *)
RunCoursePipeline ==
    /\ Idle /\ runs.returned + runs.raised < MaxRuns
    /\ LET d == extract_courses_csv(courses_csv)
           t == transform_course_data(d)
       IN  IF d = <<>> \/ t.raised \/ t.rows = <<>>
           THEN /\ runs' = [runs EXCEPT
                               !.course = @ + 1,
                               !.raised = IF d # <<>> /\ t.raised THEN @ + 1 ELSE @,
                               !.returned = IF d # <<>> /\ t.raised THEN @ ELSE @ + 1]
                /\ etl' = NoEtl
                /\ UNCHANGED <<batch, dbvars>>
           ELSE /\ batch' = t.rows
                /\ Enter([name |-> "insert_course", arg |-> course_data(t.rows[1])])
                /\ etl' = [name |-> "load_course_data", i |-> 1, phase |-> "course"]
                /\ runs' = [runs EXCEPT !.course = @ + 1]
    /\ UNCHANGED <<df, out, csv, courses_csv, readback, report>>
    /\ UNCHANGED extvars

----------------------------------------------------------------------------
(* Specifications *)

(* Callers invoke the DatabaseManager operations in any order *)
InitCalls == df = <<>> /\ out = <<>> /\ InitDb /\ NoExt /\ InitEtl

NextCalls ==
    \/ CallInsertCourse
    \/ CallBulkInsertHousing
    \/ CallSaveHousingClusters
    \/ CallGetHousingListings
    \/ CallInitializeDatabase
    \/ ClientReturn
    \/ get_connection

SpecCalls == InitCalls /\ [][NextCalls]_vars

(* load_course_data is run repeatedly on one batch *)
InitLoad ==
    /\ df = <<>> /\ out = <<>> /\ InitDb /\ NoExt
    /\ csv = NaN /\ courses_csv = NaN
    /\ etl = NoEtl /\ runs = NoRuns /\ readback = <<>> /\ report = <<>>
    /\ batch \in SeqsUpTo(CourseRows, MaxBatch)

NextLoad ==
    \/ LoadCourseData
    \/ LoadAfterCourse
    \/ LoadAfterOffering
    \/ get_connection

SpecLoad == InitLoad /\ [][NextLoad]_vars

(* run_housing_pipeline is run repeatedly on one file, and the table read *)
InitHousing ==
    /\ df = <<>> /\ out = <<>> /\ InitDb /\ NoExt
    /\ courses_csv = NaN
    /\ batch = <<>> /\ etl = NoEtl /\ runs = NoRuns /\ readback = <<>> /\ report = <<>>
    /\ csv \in {NaN} \cup {Some(f) : f \in SeqsUpTo(CsvRows, MaxRows)}

NextHousing ==
    \/ RunHousingPipeline
    \/ RunHousingReturn
    \/ CallGetHousingListings
    \/ ClientReturn
    \/ get_connection

SpecHousing == InitHousing /\ [][NextHousing]_vars

(* The two pipelines are run on a course file, the housing file being absent *)
InitCourse ==
    /\ df = <<>> /\ out = <<>> /\ InitDb /\ NoExt
    /\ csv = NaN
    /\ batch = <<>> /\ etl = NoEtl /\ runs = NoRuns /\ readback = <<>> /\ report = <<>>
    /\ courses_csv \in {NaN} \cup {Some(f) : f \in CourseFiles}

NextCourse ==
    \/ RunCoursePipeline
    \/ RunHousingPipeline
    \/ LoadAfterCourse
    \/ LoadAfterOffering
    \/ get_connection

SpecCourse == InitCourse /\ [][NextCourse]_vars

----------------------------------------------------------------------------
(* Claims about transform_housing_data *)

NonPositive(c) == IsNull(c) \/ Val(c) <= 0

(* C1 (as stated): in every row produced by transform_housing_data, a       *)
(* max_residents that is null or <= 0, negative values included, comes with *)
(* a null price_per_person.                                                  *)
C1_NullWhenNoResidents ==
    \A i \in 1..Len(OutRows) :
        NonPositive(OutRows[i].max_residents) => IsNull(OutRows[i].price_per_person)

(* C2: in every row produced by transform_housing_data with price and       *)
(* max_residents both present and max_residents > 0, price_per_person is    *)
(* present and is the exact quotient: price_per_person * max_residents =     *)
(* price.                                                                    *)
C2_PricePerPersonIsQuotient ==
    \A i \in 1..Len(OutRows) :
        LET r == OutRows[i] IN
        (NotNull(r.price) /\ NotNull(r.max_residents) /\ Val(r.max_residents) > 0)
            => /\ NotNull(r.price_per_person)
               /\ Val(r.price_per_person)[2] > 0
               /\ Val(r.price_per_person)[1] * Val(r.max_residents)
                      = Val(r.price) * Val(r.price_per_person)[2]

(* C2 witness: a produced row whose price is not a multiple of its positive *)
(* max_residents, so the quotient is fractional                              *)
C2_Witness ==
    \E i \in 1..Len(OutRows) :
        /\ NotNull(OutRows[i].price) /\ NotNull(OutRows[i].max_residents)
        /\ Val(OutRows[i].max_residents) > 1
        /\ Val(OutRows[i].price) % Val(OutRows[i].max_residents) # 0
        /\ NotNull(OutRows[i].price_per_person)

(* C3 (as stated): in every row produced by transform_housing_data,         *)
(* is_studio is true exactly when bedrooms equals 0 or the unit text        *)
(* contains "studio" in any letter case; null bedrooms without "studio" in  *)
(* the unit gives false.                                                     *)
C3_StudioIff ==
    \A i \in 1..Len(OutRows) :
        LET r == OutRows[i] IN
        r.is_studio <=>
            \/ (NotNull(r.bedrooms) /\ Val(r.bedrooms) = 0)
            \/ (NotNull(r.unit) /\ \E k \in 0..(Len(Val(r.unit)) - 6) :
                   StrLower(SubSeq(Val(r.unit), k + 1, k + 6))
                       = <<"s","t","u","d","i","o">>)

(* The input positions holding the key of output row o, in input order *)
Occurrences(o) == {j \in 1..Len(df) : df[j].street = o.street /\ df[j].unit = o.unit}

Max(S) == CHOOSE x \in S : \A y \in S : y <= x

(* C6: the output of transform_housing_data holds no two rows with the same *)
(* (street, unit), every input key is present, and the row kept for a key   *)
(* carries the cells of the last input row with that key (the text columns  *)
(* as given, the numeric columns parsed from that row).                      *)
C6_DedupKeepsLast ==
    Produced =>
        /\ \A i, j \in 1..Len(OutRows) :
              (OutRows[i].street = OutRows[j].street /\ OutRows[i].unit = OutRows[j].unit)
                  => i = j
        /\ \A j \in 1..Len(df) : \E i \in 1..Len(OutRows) :
              OutRows[i].street = df[j].street /\ OutRows[i].unit = df[j].unit
        /\ \A i \in 1..Len(OutRows) :
              LET o == OutRows[i]
                  l == df[Max(Occurrences(o))]
              IN  /\ Occurrences(o) # {}
                  /\ o.pet_policy = l.pet_policy
                  /\ o.bedrooms = to_numeric(l.bedrooms)
                  /\ o.max_residents = to_numeric(l.max_residents)
                  /\ o.price = clean_price(l.price)

(* C6 witness: a key occurs twice in the input with different cells and the *)
(* output holds one row for it                                               *)
C6_Witness ==
    /\ Produced
    /\ \E j1, j2 \in 1..Len(df) :
          /\ j1 < j2
          /\ df[j1].street = df[j2].street /\ df[j1].unit = df[j2].unit
          /\ df[j1] # df[j2]
          /\ Len(OutRows) < Len(df)

----------------------------------------------------------------------------
(* Claims about the database operations *)

AtRest == pc = "idle" /\ etl.name = "none"

CourseKeys == {CourseKey(d) : d \in CourseData}

RowsOfKey(k) == {i \in 1..Len(db.courses) : CourseKey(db.courses[i]) = k}

(* C4: after any sequence of insert_course calls the courses table holds    *)
(* exactly one row for every (major, course_code) that a call stored (a call *)
(* that returned), none for any other key, and the row's title, units, level *)
(* and description are those of the most recent such call.                   *)
C4_UpsertLatestWins ==
    AtRest =>
        \A k \in CourseKeys :
            IF k \in DOMAIN upserts
            THEN /\ Cardinality(RowsOfKey(k)) = 1
                 /\ \A i \in RowsOfKey(k) :
                       /\ db.courses[i].title = upserts[k].data.title
                       /\ db.courses[i].units = upserts[k].data.units
                       /\ db.courses[i].level = upserts[k].data.level
                       /\ db.courses[i].description = upserts[k].data.description
            ELSE RowsOfKey(k) = {}

(* C4 witness: a key was stored twice with different titles *)
C4_Witness ==
    /\ AtRest
    /\ \E k \in DOMAIN upserts :
          /\ upserts[k].n >= 2 /\ upserts[k].differs
          /\ \E i \in RowsOfKey(k) : db.courses[i].title = upserts[k].data.title

OfferingPayload(o) ==
    <<o.quarter, o.year, o.status, o.instructor, o.seats_available, o.notes>>

(* The rows of the batch that carry the offering p *)
BatchOfferings(p) ==
    {j \in 1..Len(batch) :
        has_quarter(batch[j]) /\ OfferingPayload(offering_data(batch[j], 0)) = p}

StoredOfferings(p) ==
    {i \in 1..Len(db.offerings) : OfferingPayload(db.offerings[i]) = p}

(* C5: offerings are insert-only: after k loads of the same batch that each *)
(* ran to the end, every offering of the batch is stored k times (twice     *)
(* after two loads), and the table holds nothing else.                      *)
C5_OfferingsDuplicate ==
    (AtRest /\ runs.raised = 0) =>
        /\ \A j \in 1..Len(batch) :
              has_quarter(batch[j]) =>
                  LET p == OfferingPayload(offering_data(batch[j], 0)) IN
                  Cardinality(StoredOfferings(p))
                      = runs.returned * Cardinality(BatchOfferings(p))
        /\ Len(db.offerings)
              = runs.returned * Cardinality({j \in 1..Len(batch) : has_quarter(batch[j])})

(* C5 witness: a batch with an offering has been loaded twice and the       *)
(* offering is stored twice                                                  *)
C5_Witness ==
    /\ AtRest /\ runs.returned = 2 /\ runs.raised = 0
    /\ \E j \in 1..Len(batch) :
          /\ has_quarter(batch[j])
          /\ Cardinality(StoredOfferings(OfferingPayload(offering_data(batch[j], 0)))) = 2

CsvFrame == extract_housing_csv(csv)

(* N: the de-duplicated records of the source file, counted on the file *)
DistinctKeys == Cardinality({<<CsvFrame[i].street, CsvFrame[i].unit>> : i \in 1..Len(CsvFrame)})

SameButId(r1, r2) == \A c \in (DOMAIN r1) \ {"id"} : r1[c] = r2[c]

(* C7: after k runs of run_housing_pipeline on the same file that returned, *)
(* the housing table holds k * N rows with ids 1..k*N, and the rows of an   *)
(* earlier run stand as written: row i and row i + N differ in the id only. *)
C7_RunsAccumulate ==
    AtRest =>
        /\ Len(db.housing) = runs.returned * DistinctKeys
        /\ \A i \in 1..Len(db.housing) : db.housing[i].id = i
        /\ \A i \in 1..(Len(db.housing) - DistinctKeys) :
              SameButId(db.housing[i], db.housing[i + DistinctKeys])

(* C7 witness: a file with a repeated key has been run twice *)
C7_Witness ==
    /\ AtRest /\ runs.returned = 2
    /\ DistinctKeys >= 1 /\ Len(CsvFrame) > DistinctKeys
    /\ Len(db.housing) = 2 * DistinctKeys

(* Python equality of a written cell and a cell read back: True == 1 *)
SameCell(c, written, read) ==
    IF c \in HOUSING_BOOL THEN read = Some(IF written THEN 1 ELSE 0) ELSE read = written

(* C8 (as stated): a batch written by load_housing_data into the empty      *)
(* housing table and read back by get_housing_listings() gives as many      *)
(* records, each with every normalized field of the written record,         *)
(* price_per_person, is_studio and pet_friendly included, and equal values. *)
C8_RoundTrip ==
    (/\ AtRest /\ out # <<>> /\ readback # <<>>
     /\ runs.returned = 1 /\ runs.raised = 0 /\ Val(readback).after = 1) =>
        LET w == Val(out).rows
            r == Val(readback).rows
        IN  /\ Len(r) = Len(w)
            /\ \A i \in 1..Len(w) : \A c \in DOMAIN w[i] :
                  c \in DOMAIN r[i] /\ SameCell(c, w[i][c], r[i][c])

(* C9: when the body of a get_connection block raises, the database file is *)
(* what it was when the call started and the caller gets the exception.     *)
C9_RollbackAndReraise ==
    (pc \in {"done", "idle"} /\ hist.body_raised) => (db = pre /\ res.raised)

(* C9 witness: save_housing_clusters raised after its DELETE had emptied a  *)
(* table that held rows, and the rollback ran                                *)
C9_Witness ==
    /\ pc = "done" /\ hist.body_raised /\ hist.rollbacks = 1
    /\ op.name = "save_housing_clusters"
    /\ pre.housing_clusters # <<>>
    /\ db.housing_clusters = pre.housing_clusters

----------------------------------------------------------------------------
(* Claims about the load batches *)

(* C11 (as stated): when load_course_data raises while processing a row of   *)
(* its batch, nothing that the batch wrote remains: for the first batch      *)
(* loaded into the empty database, the courses and offerings tables are     *)
(* empty at the moment the exception leaves load_course_data.                *)
C11_BatchRolledBack ==
    (/\ etl.name = "load_course_data" /\ pc = "done" /\ res.raised
     /\ runs = NoRuns) =>
        db.courses = <<>> /\ db.offerings = <<>>

MissingCourseInput ==
    \/ IsNull(courses_csv)
    \/ \E c \in {"major", "course_code", "title"} : c \notin Cols(Val(courses_csv))

(* C12: when the housing file is absent, and the course file is absent or    *)
(* lacks one of major, course_code, title, no run of run_housing_pipeline or *)
(* run_course_pipeline raises, none opens a connection, and every table is   *)
(* as it was (empty).                                                        *)
C12_MissingInputNoWrite ==
    (IsNull(csv) /\ MissingCourseInput) =>
        /\ runs.raised = 0
        /\ pc = "idle" /\ calls = 0
        /\ db = EmptyDb

(* C12 witness: the course file lacks a required column, run_course_pipeline *)
(* and run_housing_pipeline have each been called and have returned          *)
C12_Witness ==
    /\ IsNull(csv) /\ NotNull(courses_csv)
    /\ Val(courses_csv) # <<>>
    /\ "title" \notin Cols(Val(courses_csv))
    /\ runs.course = 1 /\ runs.returned = 2 /\ runs.raised = 0
    /\ db = EmptyDb

(* C13 (as stated): run_housing_pipeline persists every transformed record, *)
(* the records that validate_housing_data flags (a missing street among     *)
(* them) included: once a run that reached the load is over, every          *)
(* transformed record is a row of the housing table.                         *)
C13_EveryRecordPersisted ==
    (AtRest /\ out # <<>>) =>
        \A i \in 1..Len(Val(out).rows) :
            \E j \in 1..Len(db.housing) :
                /\ db.housing[j].street = Val(out).rows[i].street
                /\ db.housing[j].unit = Val(out).rows[i].unit
                /\ db.housing[j].price = Val(out).rows[i].price

Reported(counts, f) == IF f \in DOMAIN counts THEN counts[f] ELSE 0

InRange(c, hi) == NotNull(c) /\ 0 <= Val(c) /\ Val(c) <= hi

(* C14: the report of validate_housing_data on a batch gives total_records  *)
(* as the batch size, for street, price and bedrooms the number of rows      *)
(* where the field is missing, and for price and bedrooms the number of     *)
(* rows below 0 or above 10000 / 10; a missing price or bedroom count is    *)
(* counted as missing only, so missing, out of range and in range add up to *)
(* the batch size.  (A count of zero is reported by leaving the key out.)    *)
C14_ReportCounts ==
    report # <<>> =>
        LET r == Val(report) IN
        /\ r.total_records = Len(OutRows)
        /\ \A f \in {"street", "price", "bedrooms"} :
              Reported(r.missing_values, f)
                  = Cardinality({i \in 1..Len(OutRows) : OutRows[i][f] = NaN})
        /\ Reported(r.invalid_values, "street") = 0
        /\ Reported(r.missing_values, "price") + Reported(r.invalid_values, "price")
              + Cardinality({i \in 1..Len(OutRows) : InRange(OutRows[i].price, 10000)})
              = Len(OutRows)
        /\ Reported(r.missing_values, "bedrooms") + Reported(r.invalid_values, "bedrooms")
              + Cardinality({i \in 1..Len(OutRows) : InRange(OutRows[i].bedrooms, 10)})
              = Len(OutRows)

(* C14 witness: a report on a batch of two records, one with a missing      *)
(* price and one with a price above 10000                                    *)
C14_Witness ==
    /\ report # <<>>
    /\ Val(report).total_records = 2
    /\ Reported(Val(report).missing_values, "price") = 1
    /\ Reported(Val(report).invalid_values, "price") = 1

----------------------------------------------------------------------------
(* Claims about the cleaning of cells *)

By(fn) == out # <<>> /\ out[1].fn = fn

(* The input row that an output row of transform_housing_data comes from *)
RawOf(o) == df[Max(Occurrences(o))]

(* C15: transform_housing_data turns the price "$2,450" into 2450 and the   *)
(* prices "n/a", "" and missing into null; a price that comes out non-null  *)
(* is the number spelled by the cell's digits once '$' and ',' are gone; and *)
(* whatever the price cells hold, the call returns (the inputs here have a  *)
(* pet_policy text or no pet_policy column).                                 *)
C15_CurrencyParsing ==
    By("transform_housing_data") =>
        /\ ("pet_policy" \notin Cols(df) \/ \E i \in 1..Len(df) : NotNull(df[i].pet_policy))
              => ~out[1].raised
        /\ \A i \in 1..Len(OutRows) :
              LET o == OutRows[i]
                  raw == RawOf(o).price
              IN  /\ raw = Some(T_2450) => o.price = Some(2450)
                  /\ raw \in {Some(T_NA), EMPTY, NaN} => IsNull(o.price)
                  /\ NotNull(o.price) =>
                        /\ NotNull(raw)
                        /\ \A k \in 1..Len(Val(raw)) :
                              IsDigit(Val(raw)[k]) \/ Val(raw)[k] \in {"$", ",", "-"}
                        /\ Abs(Val(o.price))
                              = DigitsVal(SelectSeq(Val(raw), IsDigit))

(* C15 witness: a frame of two units, one priced "$2,450" and one "n/a",    *)
(* came out with the prices 2450 and null                                    *)
C15_Witness ==
    /\ By("transform_housing_data") /\ Produced
    /\ \E i, j \in 1..Len(OutRows) :
          /\ RawOf(OutRows[i]).price = Some(T_2450) /\ OutRows[i].price = Some(2450)
          /\ RawOf(OutRows[j]).price = Some(T_NA) /\ IsNull(OutRows[j].price)

(* C16 (as stated): in every row produced by transform_housing_data the     *)
(* status is the input status in lower case with the blanks at both ends    *)
(* removed (" Available " gives "available"), and "available" when the      *)
(* input status is missing.                                                  *)
C16_StatusLowerTrimmed ==
    By("transform_housing_data") =>
        \A i \in 1..Len(OutRows) :
            LET o == OutRows[i]
                raw == RawOf(o).status
            IN  /\ IsNull(raw) => o.status = Some(<<"a","v","a","i","l","a","b","l","e">>)
                /\ NotNull(raw) => o.status = Some(StrStrip(StrLower(Val(raw))))

TextFields == {"street", "unit", "status", "status_raw", "pet_policy", "utilities",
               "image_url", "listing_url", "avail_start", "avail_end"}

T_NAN == <<"n","a","n">>

HoldsNan(d) ==
    \E i \in 1..Len(d) : \E f \in (DOMAIN d[i]) \cap TextFields : d[i][f] = Some(T_NAN)

(* C17 (as stated): when no text cell of the input is the text "nan", no    *)
(* text field (the status included) of a row produced by                    *)
(* transform_housing_data or by normalize_csv_df is the text "nan": a       *)
(* missing input value never comes out as "nan".                             *)
C17_NoNanText ==
    ((By("transform_housing_data") \/ By("normalize_csv_df")) /\ ~HoldsNan(df))
        => ~HoldsNan(out[1].rows)

NumFields == {"bedrooms", "bathrooms", "max_residents"}

(* A raw cell that holds no number: missing, or a text that is not digits *)
NoNumber(c) == IsNull(c) \/ ~AllDigits(Val(c))

Coerced(o, raw) == \A f \in NumFields : NoNumber(raw[f]) => IsNull(o[f])

(* C18 (as stated): whatever the bedrooms, bathrooms and max_residents      *)
(* cells hold, non-numeric text included, transform_housing_data and         *)
(* load_housing_df return, and the fields whose cell holds no number are    *)
(* null in the result.  (The inputs of transform_housing_data here have a   *)
(* pet_policy text or no pet_policy column.)                                 *)
C18_NumericCoercionNeverRaises ==
    /\ (/\ By("transform_housing_data")
        /\ ("pet_policy" \notin Cols(df) \/ \E i \in 1..Len(df) : NotNull(df[i].pet_policy)))
          => /\ ~out[1].raised
             /\ \A i \in 1..Len(OutRows) : Coerced(OutRows[i], RawOf(OutRows[i]))
    /\ By("load_housing_df")
          => /\ ~out[1].raised
             /\ Len(OutRows) = Len(df)
             /\ \A i \in 1..Len(OutRows) : Coerced(OutRows[i], df[i])

(* The text holds the word in some letter case *)
HoldsWord(t, w) ==
    \E k \in 0..(Len(t) - Len(w)) : StrLower(SubSeq(t, k + 1, k + Len(w))) = w

PolicyAllows(row) ==
    /\ "pet_policy" \in DOMAIN row
    /\ NotNull(row.pet_policy)
    /\ \/ HoldsWord(Val(row.pet_policy), <<"f","r","i","e","n","d","l","y">>)
       \/ HoldsWord(Val(row.pet_policy), <<"a","l","l","o","w","e","d">>)

(* C19 (as stated): on an input with no pet_friendly column,                *)
(* transform_housing_data returns rows whose pet_friendly is true exactly   *)
(* when the row's pet_policy holds "friendly" or "allowed" in any letter    *)
(* case, and false otherwise, a missing pet_policy and an input with no     *)
(* pet_policy column included; a pet_friendly column of the input is kept   *)
(* as given.                                                                 *)
C19_PetFriendlyInferred ==
    By("transform_housing_data") =>
        IF "pet_friendly" \in Cols(df)
        THEN \A i \in 1..Len(OutRows) :
                OutRows[i].pet_friendly = RawOf(OutRows[i]).pet_friendly
        ELSE /\ ~out[1].raised
             /\ \A i \in 1..Len(OutRows) :
                   OutRows[i].pet_friendly = PolicyAllows(RawOf(OutRows[i]))

(* C20: a call of transform_housing_data leaves the caller's DataFrame with *)
(* the columns and the cells it had before the call, and leaves the         *)
(* database, its open connections included, as it was.                       *)
C20_TransformNoSideEffects ==
    [][(out = <<>> /\ out' # <<>> /\ out'[1].fn = "transform_housing_data")
          => (df' = df /\ db' = db /\ tx' = tx /\ nopen' = nopen)]_vars

(* C20 witness: the call returned rows with parsed cells and added columns, *)
(* and the caller's frame still holds the raw texts and its own columns     *)
C20_Witness ==
    /\ By("transform_housing_data") /\ Produced /\ df # <<>>
    /\ Cols(df) # Cols(OutRows)
    /\ \E i \in 1..Len(OutRows) :
          /\ OutRows[i].price = Some(2450)
          /\ RawOf(OutRows[i]).price = Some(T_2450)
    /\ db = EmptyDb

----------------------------------------------------------------------------
(* Claims about the schema, the keys and the scrapers *)

(* C21: initialize_database on a file that already has its tables returns,  *)
(* and leaves the file as it was: the same tables, each with the rows and   *)
(* the ids it had.                                                           *)
C21_ReinitPreservesData ==
    (pc \in {"finally", "done"} /\ op.name = "initialize_database") =>
        /\ ~res.raised
        /\ db.schema = TABLES
        /\ db = pre

(* C21 witness: a manager was constructed on a file that holds courses and  *)
(* housing rows, and they are still there                                    *)
C21_Witness ==
    /\ pc = "done" /\ op.name = "initialize_database"
    /\ pre.courses # <<>> /\ pre.housing # <<>>
    /\ db.courses = pre.courses /\ db.housing = pre.housing

CourseIds == {db.courses[j].id : j \in 1..Len(db.courses)}

(* The id of the stored course that row r of the batch was imported as *)
IdsOfRow(r) == {db.courses[j].id : j \in RowsOfKey(CourseKey(r))}

(* C22: every offerings row references the stored course it was imported    *)
(* with: its course_id is the id of an existing courses row, and the row    *)
(* load_course_data has just stored for batch row i carries the id of the   *)
(* courses row of that row's (major, course_code).                           *)
C22_OfferingsReferenceCourse ==
    /\ \A i \in 1..Len(db.offerings) : Val(db.offerings[i].course_id) \in CourseIds
    /\ (pc = "done" /\ etl.name = "load_course_data" /\ etl.phase = "offering"
            /\ ~res.raised) =>
           Val(db.offerings[Len(db.offerings)].course_id) \in IdsOfRow(batch[etl.i])

Triple(r) == <<r.housing_id, r.cluster_id, r.cluster_label>>

Triples(rows) == [i \in 1..Len(rows) |-> Triple(rows[i])]

(* zip(housing_ids, cluster_ids, cluster_labels) of a call *)
Zipped(a) ==
    [i \in 1..Min2(Len(a.housing_ids), Min2(Len(a.cluster_ids), Len(a.cluster_labels))) |->
        <<a.housing_ids[i], a.cluster_ids[i], a.cluster_labels[i]>>]

(* C23: save_housing_clusters replaces the assignments as one unit: until    *)
(* its commit the file holds the previous assignments, after a call that    *)
(* returned it holds exactly the triples of that call, in order, and after  *)
(* a call that raised (the DELETE had run) it holds the previous ones.       *)
C23_ClustersReplacedAtomically ==
    op.name = "save_housing_clusters" =>
        /\ pc \in {"connect", "body", "commit", "except"} =>
              db.housing_clusters = pre.housing_clusters
        /\ (pc = "done" /\ ~res.raised) =>
              Triples(db.housing_clusters) = Zipped(op.arg)
        /\ (pc = "done" /\ res.raised) =>
              db.housing_clusters = pre.housing_clusters

(* C23 witness: a call has replaced the assignments of an earlier call by   *)
(* its own, which are different                                              *)
C23_Witness ==
    /\ pc = "done" /\ op.name = "save_housing_clusters" /\ ~res.raised
    /\ pre.housing_clusters # <<>>
    /\ Triples(pre.housing_clusters) # Zipped(op.arg)
    /\ Triples(db.housing_clusters) = Zipped(op.arg)

(* The course file as extracted, and its rows after lines 152-163 *)
CourseFrame == extract_courses_csv(courses_csv)

CleanedCourses == [i \in 1..Len(CourseFrame) |-> CleanCourseRow(CourseFrame[i])]

(* The last row of the cleaned frame cl that has the key k *)
LastOfKey(cl, k) ==
    CHOOSE i \in 1..Len(cl) :
        /\ CourseKey(cl[i]) = k
        /\ \A j \in (i + 1)..Len(cl) : CourseKey(cl[j]) # k

(* The keys of the file; a file without a required column has no course *)
KeysOf(cl) ==
    IF cl = <<>> \/ missing_required(cl) # {} THEN {}
    ELSE {CourseKey(cl[i]) : i \in 1..Len(cl)}

(* C24: the batch that transform_course_data hands to the load has exactly  *)
(* one row for every (major, upper-cased and trimmed course_code) of the    *)
(* file, and that row is the cleaned last occurrence; so a run stores at    *)
(* most one offering per course: never more offerings than runs times keys, *)
(* and after the first run no two offerings with the same course_id.         *)
C24_OneRowPerCourse ==
    LET cl == CleanedCourses
        keys == KeysOf(cl)
    IN  /\ batch # <<>> =>
              /\ Len(batch) = Cardinality(keys)
              /\ \A k \in keys :
                    \E j \in 1..Len(batch) : batch[j] = cl[LastOfKey(cl, k)]
              /\ \A j \in 1..Len(batch) :
                    LET raw == CourseFrame[LastOfKey(cl, CourseKey(batch[j]))].course_code
                    IN  NotNull(raw) =>
                            batch[j].course_code = Some(StrStrip(StrUpper(Val(raw))))
        /\ Len(db.offerings) <= runs.course * Cardinality(keys)
        /\ runs.course = 1 =>
              \A i, j \in 1..Len(db.offerings) :
                  db.offerings[i].course_id = db.offerings[j].course_id => i = j

(* C24 witness: the file lists 120a under fall and 120A under Winter; one   *)
(* run has stored one course and one offering, that of the last row          *)
C24_Witness ==
    /\ AtRest /\ runs.course = 1 /\ runs.returned = 1
    /\ Len(CourseFrame) = 2 /\ missing_required(CourseFrame) = {}
    /\ CourseFrame[1].course_code = Some(T_120A_LOWER)
    /\ CourseFrame[1].quarter = Some(T_FALL_RAW)
    /\ CourseFrame[2].course_code = Some(T_120A)
    /\ CourseFrame[2].quarter = Some(T_WINTER)
    /\ Len(batch) = 1 /\ Len(db.courses) = 1 /\ Len(db.offerings) = 1
    /\ db.offerings[1].quarter = Some(T_WINTER)

----------------------------------------------------------------------------
(* Processes that share the database file.  Each runs one DatabaseManager   *)
(* call through its own get_connection block.  The engine lets one          *)
(* transaction write at a time: a statement takes the file's write lock     *)
(* and keeps it until the commit or the rollback; a statement that finds    *)
(* the lock taken waits, and raises "database is locked" on timeout.         *)

Procs == {1, 2, 3}

CallA ==
    [major |-> Some(T_PSTAT), course_code |-> Some(T_120A), title |-> Some(T_PROB),
     units |-> Some(<<"4">>), level |-> NaN, description |-> NaN]

CallB ==
    [major |-> Some(T_PSTAT), course_code |-> Some(T_120A), title |-> Some(T_STATS),
     units |-> NaN, level |-> Some(<<"u">>), description |-> NaN]

(* The writes of the third process: another course, or the cluster table *)
OtherWrites ==
    {[name |-> "insert_course", arg |-> [CallA EXCEPT !.course_code = Some(T_120B)]],
     [name |-> "save_housing_clusters",
      arg |-> [housing_ids |-> <<Some(1)>>, cluster_ids |-> <<Some(0)>>,
               cluster_labels |-> <<Some(<<"a">>)>>]]}

NewConn(o) == [pc |-> "connect", op |-> o, tx |-> <<>>, res |-> NoRes, order |-> 0]

Committed == {q \in Procs : conns[q].order > 0}

(* 25: conn = sqlite3.connect(self.db_path); no lock is taken yet *)
ProcConnect ==
    /\ \E p \in Procs :
          /\ conns[p].pc = "connect"
          /\ conns' = [conns EXCEPT ![p].pc = "body"]
    /\ UNCHANGED <<df, out, dbvars, etlvars, lock, scrape, ucsb, parse>>

(* 28: the body's statement runs on the committed file under the write lock *)
ProcExecute ==
    /\ \E p \in Procs :
          /\ conns[p].pc = "body" /\ lock = 0
          /\ \E adv \in AdvChoices(conns[p].op, db) :
                LET r == Body(conns[p].op, db, adv) IN
                conns' = [conns EXCEPT ![p].tx = Some(r.tx),
                                       ![p].res = [raised |-> r.raised, value |-> r.value],
                                       ![p].pc = after_body(r.raised)]
          /\ lock' = p
    /\ UNCHANGED <<df, out, dbvars, etlvars, scrape, ucsb, parse>>

(* 28: the lock is held by another process until the timeout:               *)
(* sqlite3.OperationalError, database is locked                              *)
ProcBusy ==
    /\ \E p \in Procs :
          /\ conns[p].pc = "body" /\ lock \notin {0, p}
          /\ conns' = [conns EXCEPT ![p].res = [raised |-> TRUE, value |-> <<>>],
                                    ![p].pc = "except"]
    /\ UNCHANGED <<df, out, dbvars, etlvars, lock, scrape, ucsb, parse>>

(* 29: conn.commit() writes the transaction to the file and frees the lock *)
ProcCommit ==
    /\ \E p \in Procs :
          /\ conns[p].pc = "commit"
          /\ db' = Val(conns[p].tx)
          /\ conns' = [conns EXCEPT ![p].pc = "finally",
                                    ![p].order = Cardinality(Committed) + 1]
    /\ lock' = 0
    /\ UNCHANGED <<df, out, tx, nopen, pc, op, res, hist, pre, upserts, calls,
                   etlvars, scrape, ucsb, parse>>

(* 31-33: conn.rollback() and raise *)
ProcRollback ==
    /\ \E p \in Procs :
          /\ conns[p].pc = "except"
          /\ conns' = [conns EXCEPT ![p].tx = <<>>,
                                    ![p].res = [raised |-> TRUE, value |-> <<>>],
                                    ![p].pc = "finally"]
          /\ lock' = IF lock = p THEN 0 ELSE lock
    /\ UNCHANGED <<df, out, dbvars, etlvars, scrape, ucsb, parse>>

(* 35: conn.close() *)
ProcClose ==
    /\ \E p \in Procs :
          /\ conns[p].pc = "finally"
          /\ conns' = [conns EXCEPT ![p].tx = <<>>, ![p].pc = "done"]
    /\ UNCHANGED <<df, out, dbvars, etlvars, lock, scrape, ucsb, parse>>

(* Two processes upsert the same course, a third writes something else, on *)
(* a file that has its tables and no rows                                    *)
InitConc ==
    /\ df = <<>> /\ out = <<>> /\ InitDb /\ InitEtl
    /\ scrape = <<>> /\ ucsb = <<>> /\ parse = <<>>
    /\ lock = 0
    /\ \E first \in {CallA, CallB}, o \in OtherWrites :
          conns = [p \in Procs |->
                      NewConn(IF p = 3 THEN o
                              ELSE [name |-> "insert_course",
                                    arg |-> IF p = 1 THEN first
                                            ELSE IF first = CallA THEN CallB ELSE CallA])]

NextConc ==
    \/ ProcConnect
    \/ ProcExecute
    \/ ProcBusy
    \/ ProcCommit
    \/ ProcRollback
    \/ ProcClose

SpecConc == InitConc /\ [][NextConc]_vars

AllDone == conns # <<>> /\ \A p \in Procs : conns[p].pc = "done"

(* Those of the two upserts that returned *)
Upserted == {p \in {1, 2} : conns[p].pc = "done" /\ ~conns[p].res.raised}

FieldsOf(r) == <<r.major, r.course_code, r.title, r.units, r.level, r.description>>

(* C25: when the two upserts of one (major, course_code) and the other      *)
(* write have all ended, and at least one upsert was not turned away by the *)
(* lock, the courses table has exactly one row of that key; its fields are  *)
(* those of one call in full, the upsert that committed last, and its id is *)
(* the one the first upsert's insert returned.                               *)
C25_ConcurrentUpsertOneRow ==
    (AllDone /\ Upserted # {}) =>
        /\ Cardinality(RowsOfKey(CourseKey(CallA))) = 1
        /\ LET row == db.courses[CHOOSE i \in RowsOfKey(CourseKey(CallA)) : TRUE]
               last == CHOOSE p \in Upserted :
                          \A q \in Upserted : conns[q].order <= conns[p].order
               first == CHOOSE p \in Upserted :
                           \A q \in Upserted : conns[p].order <= conns[q].order
           IN  /\ FieldsOf(row) = FieldsOf(conns[last].op.arg)
               /\ row.id = conns[first].res.value

(* C25 witness: the three writes interleaved, the other course was inserted *)
(* between the two upserts, and the row has the id of the first upsert and  *)
(* the fields of the second                                                  *)
C25_Witness ==
    /\ AllDone /\ Upserted = {1, 2}
    /\ conns[1].order = 1 /\ conns[3].order = 2 /\ conns[2].order = 3
    /\ conns[3].op.name = "insert_course"
    /\ Len(db.courses) = 2
    /\ db.courses[1].id = conns[1].res.value
    /\ FieldsOf(db.courses[1]) = FieldsOf(conns[2].op.arg)

----------------------------------------------------------------------------
(* transform_housing_data applied to its own output *)

T_IDEAL == <<"I","d","e","a","l">>

(* Rows of two buildings, with and without a price and residents *)
TwiceRows ==
    [street : {Some(T_SUENO), Some(T_IDEAL)},
     unit : {Some(T_UNIT_A), Some(T_STUDIO_B)},
     price : {Some(T_2450), NaN},
     bedrooms : {Some(<<"2">>)},
     bathrooms : {Some(<<"1">>)},
     max_residents : {Some(<<"4">>), Some(<<"0">>)},
     status : {Some(T_AVAILABLE)},
     pet_policy : {Some(T_PETS_ALLOWED)}]

InitTwice ==
    /\ df \in SeqsUpTo(TwiceRows, MaxRows)
    /\ out = <<>>
    /\ InitDb /\ NoExt /\ InitEtl

(* The caller passes the returned frame to transform_housing_data again *)
TransformAgain ==
    /\ Len(out) = 1 /\ ~out[1].raised
    /\ out' = Append(out, Outcome("transform_housing_data",
                                  transform_housing_data_typed(out[1].rows)))
    /\ UNCHANGED <<df, dbvars, etlvars, extvars>>

NextTwice ==
    \/ Transform
    \/ TransformAgain

SpecTwice == InitTwice /\ [][NextTwice]_vars

IdempotentFields ==
    {"price", "bedrooms", "bathrooms", "max_residents", "status", "is_studio",
     "pet_friendly", "price_per_person"}

(* C26: transform_housing_data applied to a frame it returned returns the   *)
(* same rows, in the same order, with the same price, bedrooms, bathrooms,  *)
(* max_residents, status, is_studio, pet_friendly and price_per_person.      *)
C26_TransformIdempotent ==
    Len(out) = 2 =>
        /\ ~out[2].raised
        /\ Len(out[2].rows) = Len(out[1].rows)
        /\ \A i \in 1..Len(out[1].rows) :
              /\ SameKey(out[2].rows[i], out[1].rows[i])
              /\ \A c \in IdempotentFields : out[2].rows[i][c] = out[1].rows[i][c]

(* C26 witness: a frame with a priced row and an unpriced row, whose price  *)
(* column is float64 and prints as "2450.0" and "nan", went through twice    *)
C26_Witness ==
    /\ Len(out) = 2 /\ ~out[2].raised
    /\ Len(out[1].rows) = 2
    /\ out[1].rows[1].price = Some(2450) /\ IsNull(out[1].rows[2].price)
    /\ out[2].rows[1].price = Some(2450)
    /\ out[2].rows[1].price_per_person = out[1].rows[1].price_per_person
    /\ NotNull(out[1].rows[1].price_per_person)

----------------------------------------------------------------------------
(* The site scrapers (scrapers.py).  A page of a site is what requests.get   *)
(* gives for it: [fetch, cards] with fetch "error" (the request raises),     *)
(* "failed" (a status other than 200) or "ok"; a card is [street, name,      *)
(* status_text], the stripped text of its elements, "" for a lacking one.    *)
(* The addresses of the model are Isla Vista addresses.                       *)

ContainsAny(t, ks) == \E k \in ks : StrContains(t, k)

AVAILABLE_WORDS == {<<"a","v","a","i","l","a","b","l","e">>, <<"n","o","w">>, <<"v","a","c","a","n","t">>}

PROCESSING_WORDS == {<<"p","e","n","d","i","n","g">>, <<"w","a","i","t","l","i","s","t">>, <<"p","r","o","c","e","s","s","i","n","g">>, <<"a","p","p","l","y","i","n","g">>}

LEASED_WORDS == {<<"l","e","a","s","e","d">>, <<"o","c","c","u","p","i","e","d">>, <<"n","o","t"," ","a","v","a","i","l","a","b","l","e">>, <<"u","n","a","v","a","i","l","a","b","l","e">>}

(* normalize_status, lines 118-133: None and "" are 'unknown'; the tests run *)
(* in the order available, processing, leased on the stripped lower-case text *)
normalize_status(raw) ==
    IF IsNull(raw) \/ Val(raw) = <<>> THEN "unknown"
    ELSE LET t == StrLower(StrStrip(Val(raw))) IN
         IF ContainsAny(t, AVAILABLE_WORDS) THEN "available"
         ELSE IF ContainsAny(t, PROCESSING_WORDS) THEN "processing"
         ELSE IF ContainsAny(t, LEASED_WORDS) THEN "leased"
         ELSE "unknown"

SITES == <<"ivproperties", "kamap", "solis", "sierra", "rlwa", "icon">>

T_SOLIS == <<"S","o","l","i","s"," ","I","s","l","a"," ","V","i","s","t","a">>

T_ICON == <<"I","C","O","N"," ","A","p","a","r","t","m","e","n","t","s">>

(* Listing(...) as each scraper builds it: solis and icon list the units of *)
(* one building, the other sites list addresses without a unit               *)
ListingOf(name, card) ==
    [source |-> name,
     street |-> IF name = "solis" THEN Some(T_SOLIS)
                ELSE IF name = "icon" THEN Some(T_ICON)
                ELSE IF card.street = <<>> THEN NaN ELSE Some(card.street),
     unit |-> IF name \in {"solis", "icon"}
              THEN Some(IF card.name = <<>> THEN (IF name = "solis" THEN T_SOLIS ELSE T_ICON)
                        ELSE card.name)
              ELSE NaN,
     status |-> normalize_status(Some(card.status_text))]

ListingsOf(name, cards) == [k \in 1..Len(cards) |-> ListingOf(name, cards[k])]

SiteReturned(listings) == [raised |-> FALSE, listings |-> listings]

SiteRaised == [raised |-> TRUE, listings |-> <<>>]

(* scrape_ivproperties, lines 175-243: page after page until a status other *)
(* than 200 or a page without cards; a page the site does not have is a 404  *)
RECURSIVE scrape_ivproperties(_, _, _)
scrape_ivproperties(pages, page, listings) ==
    IF page > Len(pages) THEN SiteReturned(listings)
    ELSE IF pages[page].fetch = "error" THEN SiteRaised
    ELSE IF pages[page].fetch = "failed" THEN SiteReturned(listings)
    ELSE IF pages[page].cards = <<>> THEN SiteReturned(listings)
    ELSE scrape_ivproperties(pages, page + 1,
                             listings \o ListingsOf("ivproperties", pages[page].cards))

(* scrape_kamap, scrape_solis, scrape_sierra, scrape_rlwa, scrape_icon: one  *)
(* page; a status other than 200 returns the empty list                      *)
scrape_one_page(name, pages) ==
    IF pages[1].fetch = "error" THEN SiteRaised
    ELSE IF pages[1].fetch = "failed" THEN SiteReturned(<<>>)
    ELSE SiteReturned(ListingsOf(name, pages[1].cards))

scrape_site(name, pages) ==
    IF name = "ivproperties" THEN scrape_ivproperties(pages, 1, <<>>)
    ELSE scrape_one_page(name, pages)

(* A plausible slip: the try block is around the loop, so the first         *)
(* exception ends it                                                         *)
next_site_abort(i, raised) == IF raised THEN Len(SITES) ELSE i + 1

(* 614-621: the try block is inside the loop, which goes on after an except *)
next_site(i, raised) == i + 1

SameListingKey(a, b) == a.source = b.source /\ a.street = b.street /\ a.unit = b.unit

(* 630: drop_duplicates(subset=["source", "street", "unit"], keep="first") *)
drop_duplicate_listings(l) ==
    LET keep == {i \in 1..Len(l) : ~\E j \in 1..(i - 1) : SameListingKey(l[i], l[j])}
        F[i \in 0..Len(l)] ==
            IF i = 0 THEN <<>>
            ELSE IF i \in keep THEN Append(F[i - 1], l[i]) ELSE F[i - 1]
    IN  F[Len(l)]

(* 614-621: one turn of the loop of scrape_all_sources *)
ScrapeSite ==
    /\ scrape.i < Len(SITES) /\ scrape.result = <<>>
    /\ LET name == SITES[scrape.i + 1]
           r == scrape_site(name, scrape.web[name])
       IN  scrape' = [scrape EXCEPT
                         !.all_listings = IF r.raised THEN @ ELSE @ \o r.listings,
                         !.i = next_site(@, r.raised)]
    /\ UNCHANGED <<df, out, dbvars, etlvars, conns, lock, ucsb, parse>>

(* 623-636: the empty DataFrame when nothing was scraped, else the merged   *)
(* frame without duplicates                                                  *)
ScrapeReturn ==
    /\ scrape.i = Len(SITES) /\ scrape.result = <<>>
    /\ scrape' = [scrape EXCEPT !.result = Some(drop_duplicate_listings(scrape.all_listings))]
    /\ UNCHANGED <<df, out, dbvars, etlvars, conns, lock, ucsb, parse>>

MaxPages == 2

T_TRIGO == <<"T","r","i","g","o">>

StatusTexts ==
    {<<>>, <<"A","v","a","i","l","a","b","l","e"," ","N","o","w">>, <<"N","o","t"," ","A","v","a","i","l","a","b","l","e">>, <<"U","n","a","v","a","i","l","a","b","l","e">>, <<"P","e","n","d","i","n","g">>,
     <<" ","O","c","c","u","p","i","e","d"," ">>, <<"S","o","l","d">>}

Card(address, floorplan, raw) ==
    [street |-> address, name |-> floorplan, status_text |-> raw]

Page(fetch, cards) == [fetch |-> fetch, cards |-> cards]

CARD_SUENO == Card(T_SUENO, <<>>, <<"A","v","a","i","l","a","b","l","e"," ","N","o","w">>)

CARD_TRIGO == Card(T_TRIGO, <<>>, <<"L","e","a","s","e","d">>)

(* The pages of ivproperties: up to MaxPages pages *)
IvPages ==
    SeqsUpTo({Page("error", <<>>), Page("failed", <<>>), Page("ok", <<>>),
              Page("ok", <<CARD_SUENO, CARD_TRIGO>>)}, MaxPages)

(* The page of kamap: one card whose status text varies *)
KamapPages ==
    {<<Page("error", <<>>)>>, <<Page("failed", <<>>)>>}
        \cup {<<Page("ok", <<Card(T_SUENO, <<>>, s)>>)>> : s \in StatusTexts}

(* The page of solis: two floorplans of the same name, or none *)
SolisPages ==
    {<<Page("error", <<>>)>>, <<Page("failed", <<>>)>>,
     <<Page("ok", <<Card(<<>>, T_UNIT_A, <<"A","v","a","i","l","a","b","l","e"," ","N","o","w">>), Card(<<>>, T_UNIT_A, <<"L","e","a","s","e","d">>),
                    Card(<<>>, <<>>, <<>>)>>)>>}

OtherPages == {<<Page("error", <<>>)>>, <<Page("ok", <<CARD_SUENO>>)>>}

InitScrape ==
    /\ df = <<>> /\ out = <<>> /\ InitDb /\ InitEtl /\ NoConns
    /\ ucsb = <<>> /\ parse = <<>>
    /\ \E iv \in IvPages, ka \in KamapPages, so \in SolisPages, si, ic \in OtherPages :
          scrape = [web |-> [ivproperties |-> iv, kamap |-> ka, solis |-> so,
                             sierra |-> si, rlwa |-> <<Page("ok", <<CARD_TRIGO>>)>>,
                             icon |-> ic],
                    i |-> 0, all_listings |-> <<>>, result |-> <<>>]

NextScrape ==
    \/ ScrapeSite
    \/ ScrapeReturn

SpecScrape == InitScrape /\ [][NextScrape]_vars

(* The listings kamap has contributed, once its turn is over *)
KamapListings ==
    IF scrape = <<>> \/ scrape.i < 2 THEN <<>>
    ELSE SelectSeq(scrape.all_listings, LAMBDA l : l.source = "kamap")

KamapRaw == StrLower(StrStrip(scrape.web.kamap[1].cards[1].status_text))

(* C27 (as stated): the status of a scraped listing is one of the four      *)
(* values; it is 'leased' when the raw text contains 'leased', 'occupied',  *)
(* 'not available' or 'unavailable', 'processing' when it contains          *)
(* 'pending', 'waitlist', 'processing' or 'applying', and 'unknown' when it *)
(* is empty or has none of the words.                                        *)
C27_NormalizeStatus ==
    \A k \in 1..Len(KamapListings) :
        LET st == KamapListings[k].status IN
        /\ st \in {"available", "processing", "leased", "unknown"}
        /\ ContainsAny(KamapRaw, LEASED_WORDS) => st = "leased"
        /\ ContainsAny(KamapRaw, PROCESSING_WORDS) => st = "processing"
        /\ (KamapRaw = <<>> \/ ~ContainsAny(KamapRaw, AVAILABLE_WORDS \cup PROCESSING_WORDS
                                                        \cup LEASED_WORDS))
              => st = "unknown"

SiteOutcome(k) == scrape_site(SITES[k], scrape.web[SITES[k]])

(* The scraper of site k raised, or its first fetch failed *)
FailedSite(k) ==
    \/ SiteOutcome(k).raised
    \/ scrape.web[SITES[k]] = <<>>
    \/ scrape.web[SITES[k]][1].fetch = "failed"

FromSource(l, name) == SelectSeq(l, LAMBDA x : x.source = name)

(* C28: in scrape_all_sources a site whose scraper raised or whose fetch    *)
(* failed contributes nothing, and that is all it does: every site has its  *)
(* turn, the listings gathered from a site that returned are exactly what   *)
(* its scraper returned, and the merged result has, for every gathered      *)
(* listing, the first listing with its source, street and unit.              *)
C28_FailureIsolated ==
    scrape # <<>> =>
        /\ \A k \in 1..scrape.i :
              /\ FailedSite(k) => FromSource(scrape.all_listings, SITES[k]) = <<>>
              /\ ~SiteOutcome(k).raised =>
                    FromSource(scrape.all_listings, SITES[k]) = SiteOutcome(k).listings
        /\ \A k \in (scrape.i + 1)..Len(SITES) :
              FromSource(scrape.all_listings, SITES[k]) = <<>>
        /\ scrape.result # <<>> =>
              LET merged == Val(scrape.result) IN
              /\ scrape.i = Len(SITES)
              /\ \A x \in 1..Len(scrape.all_listings) :
                    \E r \in 1..Len(merged) :
                        /\ SameListingKey(merged[r], scrape.all_listings[x])
                        /\ \E y \in 1..x :
                              /\ merged[r] = scrape.all_listings[y]
                              /\ \A z \in 1..(y - 1) :
                                    ~SameListingKey(scrape.all_listings[z], merged[r])
              /\ \A r \in 1..Len(merged) :
                    \E x \in 1..Len(scrape.all_listings) : merged[r] = scrape.all_listings[x]

(* C28 witness: sierra raised and kamap's fetch failed; rlwa and icon, which *)
(* come after sierra, and ivproperties and solis are in the merged result,  *)
(* solis without its repeated floorplan                                      *)
C28_Witness ==
    /\ scrape # <<>> /\ scrape.result # <<>>
    /\ SiteOutcome(4).raised
    /\ scrape.web.kamap[1].fetch = "failed"
    /\ FromSource(Val(scrape.result), "sierra") = <<>>
    /\ FromSource(Val(scrape.result), "kamap") = <<>>
    /\ Len(FromSource(Val(scrape.result), "rlwa")) = 1
    /\ Len(FromSource(Val(scrape.result), "icon")) = 1
    /\ Len(FromSource(Val(scrape.result), "ivproperties")) = 2
    /\ Len(FromSource(scrape.all_listings, "solis")) = 3
    /\ Len(FromSource(Val(scrape.result), "solis")) = 2

----------------------------------------------------------------------------
(* UCSBCourseScraper (ucsb_course_scraper.py): its own tables, written with *)
(* DataFrame.to_sql through a connection that is closed by the last line of *)
(* save_to_database                                                          *)

(* create_database_schema, lines 136-208: courses (course_code UNIQUE) and  *)
(* course_offerings, both empty                                               *)
UcsbSchema ==
    [courses |-> <<>>, course_offerings |-> <<>>, nopen |-> 0, saves |-> 0, last |-> <<>>]

(* 217: drop_duplicates(subset=['course_code']), keep='first' by default *)
drop_duplicate_codes(d) ==
    LET keep == {i \in 1..Len(d) :
                    ~\E j \in 1..(i - 1) : d[i].course_code = d[j].course_code}
        F[i \in 0..Len(d)] ==
            IF i = 0 THEN <<>>
            ELSE IF i \in keep THEN Append(F[i - 1], d[i]) ELSE F[i - 1]
    IN  F[Len(d)]

(* to_sql('courses', if_exists='append') meets the UNIQUE constraint on     *)
(* course_code: a code that the table has already is an IntegrityError       *)
CodeConflict(u, rows) ==
    \E i \in 1..Len(rows), j \in 1..Len(u.courses) :
        rows[i].course_code = u.courses[j].course_code

(* UCSBCourseScraper.save_to_database, lines 210-236.  to_sql writes the    *)
(* frame in one transaction and lets the IntegrityError through; lines      *)
(* 221-235, conn.close() among them, are then not reached.                   *)
save_to_database(u, d) ==
    LET courses_df == drop_duplicate_codes(d)
        overlap == CodeConflict(u, courses_df)
    IN  IF overlap
        THEN [u EXCEPT !.nopen = @ + 1, !.saves = @ + 1,
                       !.last = Some([raised |-> TRUE, overlap |-> TRUE])]
        ELSE [u EXCEPT !.courses = @ \o courses_df,
                       !.course_offerings =
                           @ \o [i \in 1..Len(d) |-> [course_code |-> d[i].course_code]],
                       !.saves = @ + 1,
                       !.last = Some([raised |-> FALSE, overlap |-> FALSE])]

UcsbRows ==
    [dept : {Some(T_PSTAT)},
     course_code : {Some(T_120A), Some(T_120B)},
     title : {Some(T_PROB), Some(T_STATS)}]

(* main(), lines 267-285: the script is run again and saves what it scraped *)
SaveToDatabase ==
    /\ ucsb.saves < MaxCalls
    /\ \E d \in SeqsUpTo(UcsbRows, MaxRows) \ {<<>>} : ucsb' = save_to_database(ucsb, d)
    /\ UNCHANGED <<df, out, dbvars, etlvars, conns, lock, scrape, parse>>

InitUcsb ==
    /\ df = <<>> /\ out = <<>> /\ InitDb /\ InitEtl /\ NoConns
    /\ scrape = <<>> /\ parse = <<>>
    /\ ucsb = UcsbSchema

NextUcsb == SaveToDatabase

SpecUcsb == InitUcsb /\ [][NextUcsb]_vars

UcsbCodes == {ucsb.courses[i].course_code : i \in 1..Len(ucsb.courses)}

(* C29 (as stated): a save_to_database call on a courses table that holds   *)
(* rows of the same course codes returns without an error, leaves one       *)
(* courses row per course_code, and leaves no connection open.               *)
C29_ResaveCompletes ==
    (ucsb # <<>> /\ ucsb.last # <<>> /\ Val(ucsb.last).overlap) =>
        /\ ~Val(ucsb.last).raised
        /\ Cardinality(UcsbCodes) = Len(ucsb.courses)
        /\ ucsb.nopen = 0

----------------------------------------------------------------------------
(* parse_offerings_from_html (scrape_pstat_offerings.py).  The page is its   *)
(* list of stripped text lines; a line counts by what the parser asks of it: *)
(* whether it is a course line, empty, or a title line.  An offering keeps   *)
(* the lines its fields are read from.                                       *)

COURSE_LINES == {"PSTAT 120A", "PSTAT 120B"}

PageLines == COURSE_LINES \cup {"", "75 / 75  Full", "###### Probability", "Ichiba  3.8"}

MaxLines == 4

(* 52-53: line.startswith("PSTAT ") and len(line.split()) >= 2 *)
is_course_line(line) == line \in COURSE_LINES

(* lines[j].startswith("######") *)
is_title_line(line) == line = "###### Probability"

(* while j < n and lines[j] == "": j += 1, on indices from 1 *)
RECURSIVE SkipEmpty(_, _)
SkipEmpty(lines, j) ==
    IF j <= Len(lines) /\ lines[j] = "" THEN SkipEmpty(lines, j + 1) ELSE j

(* 126-155: up to the next course line or the end of the page *)
RECURSIVE ToNextCourse(_, _)
ToNextCourse(lines, j) ==
    IF j <= Len(lines) /\ ~is_course_line(lines[j]) THEN ToNextCourse(lines, j + 1) ELSE j

(* 61-176: the block of the course line at i: the first non-empty line      *)
(* after it is taken as the capacity line and the line after that looked at *)
(* as the title, then one more as the instructor, whatever they are          *)
parse_block(lines, i) ==
    LET n == Len(lines)
        jc == SkipEmpty(lines, i + 1)
        capacity_line == IF jc <= n THEN lines[jc] ELSE ""
        jt == SkipEmpty(lines, jc + 1)
        has_title == jt <= n /\ is_title_line(lines[jt])
        ji == SkipEmpty(lines, IF has_title THEN jt + 1 ELSE jt)
        instr_line == IF ji <= n THEN lines[ji] ELSE ""
        jd == IF ji <= n THEN ji + 1 ELSE ji
    IN  [offering |-> [course_code |-> lines[i], capacity_line |-> capacity_line,
                       title |-> IF has_title THEN lines[jt] ELSE "",
                       instr_line |-> instr_line],
         next |-> ToNextCourse(lines, jd)]

(* 55-176: one turn of the outer while loop *)
ParseStep ==
    /\ ~parse.done /\ parse.i <= Len(parse.lines)
    /\ IF ~is_course_line(parse.lines[parse.i])
       THEN parse' = [parse EXCEPT !.i = @ + 1]
       ELSE LET b == parse_block(parse.lines, parse.i) IN
            parse' = [parse EXCEPT !.offerings = Append(@, b.offering), !.i = b.next]
    /\ UNCHANGED <<df, out, dbvars, etlvars, conns, lock, scrape, ucsb>>

(* 178: return offerings *)
ParseReturn ==
    /\ ~parse.done /\ parse.i > Len(parse.lines)
    /\ parse' = [parse EXCEPT !.done = TRUE]
    /\ UNCHANGED <<df, out, dbvars, etlvars, conns, lock, scrape, ucsb>>

InitParse ==
    /\ df = <<>> /\ out = <<>> /\ InitDb /\ InitEtl /\ NoConns
    /\ scrape = <<>> /\ ucsb = <<>>
    /\ \E lines \in SeqsUpTo(PageLines, MaxLines) :
          parse = [lines |-> lines, i |-> 1, offerings |-> <<>>, done |-> FALSE]

NextParse ==
    \/ ParseStep
    \/ ParseReturn

SpecParse == InitParse /\ [][NextParse]_vars

(* The course lines of the page, in page order *)
HeaderLines == SelectSeq(parse.lines, is_course_line)

(* C30 (as stated): the parser returns one offering for every course line   *)
(* of the page, in page order, also when the lines of a block are lacking   *)
(* and two course lines follow each other.                                   *)
C30_OneOfferingPerHeader ==
    (parse # <<>> /\ parse.done) =>
        /\ Len(parse.offerings) = Len(HeaderLines)
        /\ \A k \in 1..Len(parse.offerings) :
              parse.offerings[k].course_code = HeaderLines[k]

=============================================================================
